---- MODULE Spec2Model ----
(***************************************************************************)
(* Model of the JavaScript Error Visualizer attribution pipeline:          *)
(*   ErrorCapturer   (extension/js/modules/errorCapturer.js)               *)
(*   content script  (extension/js/contentScript.js: handleError, ...)     *)
(*   SourceMapper    (extension/js/contentScript.js, lines 258-471)        *)
(*   ElementIdentifier, Highlighter, SettingsManager                       *)
(***************************************************************************)
EXTENDS Integers, Sequences, FiniteSets, TLC

\* ------------------------------------------------------------------ bounds
MaxCaptures == 3      \* signals delivered to the page's pipeline in one run
MaxSignals == 2       \* signals delivered to a capturer used on its own in one run
MaxClock == 1         \* millisecond ticks of Date.now() observed in one run
StackLimit == 2       \* nested console.error captures before the call stack is exhausted
MaxHandlerOps == 3    \* register / unregister / setter calls in one run
MaxAttach == 3        \* direct highlightElement calls in one run
MaxPageOps == 1       \* page mutations (style writes, DOM removals/insertions, listeners) in one run
MaxCommands == 1      \* panel/background commands delivered to the page in one run
MaxRetries == 3       \* largest sourcemapRetries setting tried
MaxTimers == 3        \* tooltip hide timers created in one run

\* ------------------------------------------------------------- value pools
Null == "null"
NoId == << >>         \* a null highlight id
NoData == << >>       \* a deleted data attribute
Elements == {"e1", "e2"}
Consumers == {"h1", "h2", "handleError"}
RandVals == {0, 1}
FetchUrls == {"a.js", "a.js.map"}   \* a script and the map its sourceMappingURL names

\* messages and ignore patterns are sequences of characters; "4" is a digit,
\* "#" in a pattern stands for the class \d, "(" is an unterminated group
MsgNum == <<"E", "4">>
MsgAbc == <<"E", "a">>
MsgParen == <<"(", "a">>
MsgHandlerFailed == <<"H">>
MsgFetchFailed == <<"F">>
MsgHandleFailed == <<"G">>
MsgDeep == <<"D">>
MsgRich == <<"R">>
MsgRef == <<"Q">>
MsgLit == <<"L">>
MsgUnknown == <<"U">>   \* 'Unknown error'
Digits == {"4"}
PatRegex == <<"^", "E", "#", "$">>
PatLiteral == <<"a">>
PatInvalid == <<"(", "a">>
PatternLists == {<< >>, <<PatRegex>>, <<PatInvalid, PatLiteral>>}

\* ---------------------------------------------------------------- helpers
RECURSIVE SeqToSet(_)
SeqToSet(s) == IF s = << >> THEN {} ELSE {Head(s)} \cup SeqToSet(Tail(s))

Contains(s, x) == \E i \in 1..Len(s) : s[i] = x

\* Array.prototype.indexOf: first index, 0 when absent
IndexOf(s, x) == IF Contains(s, x) THEN CHOOSE i \in 1..Len(s) : s[i] = x /\ \A j \in 1..(i-1) : s[j] # x ELSE 0

\* Array.prototype.splice(index, 1)
RemoveAt(s, i) == [j \in 1..(Len(s)-1) |-> IF j < i THEN s[j] ELSE s[j+1]]

\* String.prototype.includes on character sequences
Includes(m, p) == \E i \in 0..(Len(m) - Len(p)) : \A j \in 1..Len(p) : m[i+j] = p[j]

\* new RegExp(pattern) throws SyntaxError on an unterminated group
IsValidRegex(p) == ~Contains(p, "(")

AtomMatches(a, c) == IF a = "#" THEN c \in Digits ELSE a = c

\* RegExp.prototype.test for patterns of the shape ^? atom* $?
RegexTest(p, m) ==
  LET anchoredStart == Len(p) > 0 /\ p[1] = "^"
      anchoredEnd == Len(p) > 0 /\ p[Len(p)] = "$"
      lo == IF anchoredStart THEN 2 ELSE 1
      hi == IF anchoredEnd THEN Len(p) - 1 ELSE Len(p)
      n == hi - lo + 1
  IN \E i \in 0..(Len(m) - n) :
        /\ anchoredStart => i = 0
        /\ anchoredEnd => i + n = Len(m)
        /\ \A j \in 1..n : AtomMatches(p[lo + j - 1], m[i + j])

\* ------------------------------------------------------------------ state
VARIABLES
  isEnabled,          \* ErrorCapturer.isEnabled
  ignoredPatterns,    \* ErrorCapturer.ignoredPatterns
  errorHandlers,      \* ErrorCapturer.errorHandlers, in registration order
  captureConsole,     \* console.error has been replaced by overrideConsoleError
  capLog,             \* history: every signal delivered to the capturer, with its outcome
  invoked,            \* history: consumer invocations <<capture, consumer>> in call order
  consoleOut,         \* history: calls that reached the original console.error
  abortedCaps,        \* history: captures whose notification was cut short by stack exhaustion
  unregistered,       \* history: consumers passed to unregisterErrorHandler and not registered since
  opCount,            \* number of capturer API calls made so far
  clock,              \* Date.now(), in ticks
  inDoc,              \* document.contains(element)
  classList,          \* element.classList, restricted to the highlighter's classes
  dataset,            \* element.dataset.jevErrorId: the ids joined by ",", Null when deleted
  elStyle,            \* element.style, the five inline properties the highlighter saves
  highlights,         \* Highlighter.highlights: Map entries in insertion order
  firstStyle,         \* history: element.style as it was when the element's entry was created
  attachCount,        \* number of direct highlightElement calls so far
  pageOps,            \* number of page mutations so far
  capturedErrors,     \* contentScript.js capturedErrors
  tasks,              \* handleError invocations suspended at `await sourceMapper.processError`
  sourceMapCache,     \* SourceMapper.sourceMapCache
  sent,               \* history: 'errorDetected' messages sent to the background, by capture
  registry,           \* ElementIdentifier.eventListenerRegistry: Map entries in insertion order
  response,           \* the last getErrors response
  cmdCount,           \* number of commands delivered to the page so far
  resetAt,            \* history: how many captures were logged when clearErrors last ran, -1 before
  settings,           \* SettingsManager.settings in the page
  domainEnabledCache, \* SettingsManager.domainEnabledCache in the page
  hlStyle,            \* Highlighter.style
  fetchCfg,           \* SourceMapper.fetchTimeout / fetchRetries
  lastSettingsMsg,    \* history: the settings carried by the last settingsUpdated message
  fetchRun,           \* SourceMapper.fetchWithRetry invocations, one per URL: locals and progress
  tooltipVisible,     \* Highlighter.tooltipElement.classList has 'visible'
  tooltipTimeout,     \* Highlighter.tooltipTimeout: the stored timer id, 0 for null
  timers,             \* the host's pending setTimeout timers created by hideTooltip, by id
  timerCount,         \* number of timers created so far (the id of the last one)
  shownAt,            \* history: timerCount when showTooltip last made the tooltip visible, -1 before
  defaultDomainList,  \* SettingsManager.defaultSettings.domainList, the array
  sharedList,         \* settings.domainList is the very array of defaultSettings.domainList
  clearsPending       \* addDomain / removeDomain invocations suspended at `await this.saveSettings()`

capVars == <<isEnabled, ignoredPatterns, errorHandlers, captureConsole>>
obsVars == <<capLog, invoked, consoleOut, abortedCaps, unregistered, opCount>>
domVars == <<inDoc, classList, dataset, elStyle, pageOps>>
hlVars == <<highlights, firstStyle, attachCount>>
csVars == <<capturedErrors, tasks, sourceMapCache, sent, registry, response, cmdCount, resetAt>>
setVars == <<settings, domainEnabledCache, hlStyle, fetchCfg, lastSettingsMsg>>
netVars == <<fetchRun>>
tipVars == <<tooltipVisible, tooltipTimeout, timers, timerCount, shownAt>>
mgrVars == <<defaultDomainList, sharedList, clearsPending>>
vars == <<capVars, obsVars, clock, domVars, hlVars, csVars, setVars, netVars, tipVars, mgrVars>>

\* ------------------------------------------------------- raw host signals
NoStack == [frames |-> << >>, sels |-> << >>, refs |-> << >>, present |-> FALSE]
LocA == [filename |-> "a.js", lineno |-> 10, colno |-> 3]
LocB == [filename |-> "b.js", lineno |-> 1, colno |-> 1]
LocC == [filename |-> "c.js", lineno |-> 7, colno |-> 2]
NoLoc == [filename |-> Null, lineno |-> -1, colno |-> -1]   \* null file, line and column

\* an ErrorEvent whose error object is thrown from onClick in a.js
SigA == [type |-> "runtime", message |-> MsgNum, loc |-> LocA, target |-> "e1",
         stack |-> [frames |-> <<[fn |-> "onClick", file |-> "a.js"]>>, sels |-> << >>, refs |-> << >>, present |-> TRUE]]
\* an ErrorEvent from b.js whose stack text carries a selector literal for e2
SigB == [type |-> "runtime", message |-> MsgAbc, loc |-> LocB, target |-> Null,
         stack |-> [frames |-> <<[fn |-> "", file |-> "b.js"]>>, sels |-> << <<"e2">> >>, refs |-> << >>, present |-> TRUE]]
\* a PromiseRejectionEvent whose reason is not an Error object
SigC == [type |-> "promise", message |-> MsgParen, loc |-> NoLoc, target |-> Null, stack |-> NoStack]
\* console.error(string, e) calls made by the extension itself: the first argument is
\* not an Error, so the record gets the synthetic (new Error()).stack, none of whose
\* lines names a fetchable file
SyntheticStack == [frames |-> << >>, sels |-> << >>, refs |-> << >>, present |-> TRUE]
SigHandlerFailed == [type |-> "console", message |-> MsgHandlerFailed, loc |-> NoLoc, target |-> Null, stack |-> NoStack, isError |-> FALSE]
SigFetchFailed == [type |-> "console", message |-> MsgFetchFailed, loc |-> NoLoc, target |-> Null, stack |-> NoStack, isError |-> FALSE]
SigHandleFailed == [type |-> "console", message |-> MsgHandleFailed, loc |-> NoLoc, target |-> Null, stack |-> NoStack, isError |-> FALSE]
\* console.error(string) called by the page
SigLogged == [type |-> "console", message |-> MsgNum, loc |-> NoLoc, target |-> Null, stack |-> NoStack, isError |-> FALSE]
\* console.error(e) called by the page with an Error thrown in b.js
SigLoggedError == [type |-> "console", message |-> MsgAbc, loc |-> NoLoc, target |-> Null,
                   stack |-> [frames |-> <<[fn |-> "", file |-> "b.js"]>>, sels |-> << >>, refs |-> << >>, present |-> TRUE],
                   isError |-> TRUE]
LoggedSignals == {SigLogged, SigLoggedError}
\* the error event of an element whose resource failed to load, seen by the capturing
\* listener: a plain Event without message, filename or error object
SigResource == [type |-> "runtime", message |-> << >>, loc |-> NoLoc, target |-> "e1", stack |-> NoStack]
RawSignals == {SigA, SigB, SigC}
\* an ErrorEvent whose stack has three frames: a.js, b.js and a.js again
SigDeep == [type |-> "runtime", message |-> MsgDeep, loc |-> LocA, target |-> "e1",
            stack |-> [frames |-> <<[fn |-> "onClick", file |-> "a.js"], [fn |-> "", file |-> "b.js"], [fn |-> "run", file |-> "a.js"]>>,
                       sels |-> << >>, refs |-> << >>, present |-> TRUE]]
DeepSignals == {SigDeep, SigB, SigC}
\* an ErrorEvent dispatched at e1, thrown from onClick, whose stack text carries
\* selector literals for e2 and e1 and an id reference to e1
SigRich == [type |-> "runtime", message |-> MsgRich, loc |-> LocA, target |-> "e1",
            stack |-> [frames |-> <<[fn |-> "onClick", file |-> "a.js"]>>,
                       sels |-> << <<"e2", "e1">> >>, refs |-> << <<"e1">> >>, present |-> TRUE]]
\* an ErrorEvent without a target whose stack text only carries '#id' references
SigRef == [type |-> "runtime", message |-> MsgRef, loc |-> LocB, target |-> Null,
           stack |-> [frames |-> <<[fn |-> "", file |-> "b.js"]>>,
                      sels |-> << >>, refs |-> << <<"e2">>, <<"e1", "e2">> >>, present |-> TRUE]]
\* an ErrorEvent dispatched at e1 whose stack text is only the message line, which
\* carries the literal '#e2'
SigLit == [type |-> "runtime", message |-> MsgLit, loc |-> LocC, target |-> "e1",
           stack |-> [frames |-> << >>, sels |-> << >>, refs |-> << <<"e2">> >>, present |-> TRUE]]
IdentifySignals == {SigRich, SigRef, SigLit}

\* ---------------------------------------------------------- ErrorCapturer
\* the canonical error object built by handleRuntimeError / handlePromiseRejection /
\* the console.error override
NormalizeSignalNoLocation(sig, cap, ts) ==
  [cap |-> cap, type |-> sig.type, message |-> sig.message, loc |-> NoLoc,
   stack |-> sig.stack, timestamp |-> ts, count |-> 1, eventTarget |-> sig.target,
   associatedElements |-> << >>, mapped |-> Null]

NormalizeSignal(sig, cap, ts) ==
  [cap |-> cap, type |-> sig.type,
   message |-> IF sig.type = "runtime" /\ sig.message = << >> THEN MsgUnknown ELSE sig.message,
   loc |-> sig.loc,
   stack |-> IF sig.type = "console" /\ ~sig.isError THEN SyntheticStack ELSE sig.stack,
   timestamp |-> ts, count |-> 1, eventTarget |-> sig.target,
   associatedElements |-> << >>, mapped |-> Null]

shouldIgnoreErrorRegexOnly(pats, msg) ==
  \E i \in 1..Len(pats) : IsValidRegex(pats[i]) /\ RegexTest(pats[i], msg)

shouldIgnoreError(pats, msg) ==
  IF Len(pats) = 0 THEN FALSE
  ELSE \E i \in 1..Len(pats) :
         IF IsValidRegex(pats[i]) THEN RegexTest(pats[i], msg) ELSE Includes(msg, pats[i])

\* notifyHandlers walks errorHandlers; a consumer that throws is logged with
\* console.error, which re-enters the capturer when the override is installed.
\* st accumulates the effects: log, inv, out, spawned, aborted.
RECURSIVE notifyFrom(_, _, _, _, _)
RECURSIVE captureSignal(_, _, _, _)

\* a console.error override that returns before the original when capture is disabled
consoleErrorCallGated(sig, depth, env, st) ==
  LET st1 == [st EXCEPT !.out = Append(@, sig.message)]
  IN IF ~env.cc THEN st1
     ELSE IF ~env.en THEN captureSignal(sig, depth + 1, env, st)
     ELSE IF depth >= StackLimit THEN [st1 EXCEPT !.aborted = TRUE]
     ELSE captureSignal(sig, depth + 1, env, st1)

\* the console.error override: the original is called first, with the arguments of
\* the call, then the capture
consoleErrorCall(sig, depth, env, st) ==
  LET st1 == [st EXCEPT !.out = Append(@, sig.message)]
  IN IF ~env.cc THEN st1
     ELSE IF depth >= StackLimit THEN [st1 EXCEPT !.aborted = TRUE]
     ELSE captureSignal(sig, depth + 1, env, st1)

notifyFrom(i, err, depth, env, st) ==
  IF st.aborted \/ i > Len(env.hs) THEN st
  ELSE LET h == env.hs[i]
           st1 == [st EXCEPT !.inv = Append(@, <<err.cap, h>>),
                             !.spawned = IF h = "handleError" THEN Append(@, err) ELSE @]
           throws == h \in (IF depth = 1 THEN env.thr ELSE env.thrN)
       IN IF ~throws THEN notifyFrom(i + 1, err, depth, env, st1)
          ELSE notifyFrom(i + 1, err, depth, env, consoleErrorCall(SigHandlerFailed, depth, env, st1))

notifyHandlers(err, depth, env, st) == notifyFrom(1, err, depth, env, st)

\* the capture without the shouldIgnoreError early return
captureSignalNoFilter(sig, depth, env, st) ==
  LET cap == Len(st.log) + 1
      err == NormalizeSignal(sig, cap, env.ts)
  IN IF ~env.en
       THEN [st EXCEPT !.log = Append(@, [err |-> err, accepted |-> FALSE, depth |-> depth])]
     ELSE notifyHandlers(err, depth, env,
            [st EXCEPT !.log = Append(@, [err |-> err, accepted |-> TRUE, depth |-> depth])])

\* handleRuntimeError / handlePromiseRejection / the body of the console.error
\* override: the enablement guard, the ignore filter, the notification
captureSignal(sig, depth, env, st) ==
  LET cap == Len(st.log) + 1
      err == NormalizeSignal(sig, cap, env.ts)
  IN IF ~env.en
       THEN [st EXCEPT !.log = Append(@, [err |-> err, accepted |-> FALSE, depth |-> depth])]
     ELSE IF shouldIgnoreError(env.pats, err.message)
       THEN [st EXCEPT !.log = Append(@, [err |-> err, accepted |-> FALSE, depth |-> depth])]
     ELSE notifyHandlers(err, depth, env,
            [st EXCEPT !.log = Append(@, [err |-> err, accepted |-> TRUE, depth |-> depth])])

\* ------------------------------------------------------------ Highlighter
StyleProps == {"boxShadow", "border", "backgroundColor", "position", "zIndex"}
StyleVals == {"", "set"}
UnsetStyle == [p \in StyleProps |-> ""]
ClsHighlight == "jev-error-highlight"
ClsMultiple == "jev-error-highlight-multiple"
ClsFlash == "jev-error-highlight-flash"

\* the highlighter's view of the page: the Map and the elements' markers and styles
HLState == [hl |-> highlights, cls |-> classList, ds |-> dataset, st |-> elStyle]

\* Map.prototype.has / get / delete on the insertion-ordered entry list
MapHas(hl, e) == \E i \in 1..Len(hl) : hl[i].el = e
MapIndex(hl, e) == CHOOSE i \in 1..Len(hl) : hl[i].el = e
MapGet(hl, e) == hl[MapIndex(hl, e)]
MapDelete(hl, e) == SelectSeq(hl, LAMBDA x : x.el # e)

\* generateErrorId: `error-${Date.now()}-${Math.floor(Math.random() * 10000)}`
generateErrorId(now, rnd) == <<now, rnd>>

IdsOf(errors) == [i \in 1..Len(errors) |-> errors[i].id]

\* highlightElement without the document.contains early return
highlightElementAnywhere(S, doc, e, error, id) ==
  IF MapHas(S.hl, e) THEN
    LET k == MapIndex(S.hl, e)
        info == S.hl[k]
    IN IF ~(\E i \in 1..Len(info.errors) : info.errors[i].id = id) THEN
         LET errors2 == Append(info.errors, [id |-> id, error |-> error])
         IN [S |-> [S EXCEPT !.hl[k].errors = errors2,
                             !.ds[e] = IdsOf(errors2),
                             !.cls[e] = IF Len(errors2) > 1 THEN @ \cup {ClsMultiple} ELSE @],
             ret |-> id]
       ELSE [S |-> S, ret |-> id]
  ELSE [S |-> [S EXCEPT !.cls[e] = @ \cup {ClsHighlight},
                        !.hl = Append(@, [el |-> e,
                                          originalStyles |-> [p \in StyleProps |-> S.st[e][p]],
                                          errors |-> <<[id |-> id, error |-> error]>>]),
                        !.ds[e] = <<id>>],
        ret |-> id]

\* highlightElement(element, error); doc is document.contains, id the generated id
highlightElement(S, doc, e, error, id) ==
  IF ~doc[e] THEN [S |-> S, ret |-> NoId]
  ELSE IF MapHas(S.hl, e) THEN
    LET k == MapIndex(S.hl, e)
        info == S.hl[k]
    IN IF ~(\E i \in 1..Len(info.errors) : info.errors[i].id = id) THEN
         LET errors2 == Append(info.errors, [id |-> id, error |-> error])
         IN [S |-> [S EXCEPT !.hl[k].errors = errors2,
                             !.ds[e] = IdsOf(errors2),
                             !.cls[e] = IF Len(errors2) > 1 THEN @ \cup {ClsMultiple} ELSE @],
             ret |-> id]
       ELSE [S |-> S, ret |-> id]
  ELSE [S |-> [S EXCEPT !.cls[e] = @ \cup {ClsHighlight},
                        !.hl = Append(@, [el |-> e,
                                          originalStyles |-> [p \in StyleProps |-> S.st[e][p]],
                                          errors |-> <<[id |-> id, error |-> error]>>]),
                        !.ds[e] = <<id>>],
        ret |-> id]

\* removeAllHighlights without the five style assignments
removeAllHighlightsKeepStyle(S, e) ==
  IF ~MapHas(S.hl, e) THEN S
  ELSE [S EXCEPT !.cls[e] = @ \ {ClsHighlight, ClsMultiple},
                 !.ds[e] = NoData,
                 !.hl = MapDelete(@, e)]

\* removeAllHighlights(element)
removeAllHighlights(S, e) ==
  IF ~MapHas(S.hl, e) THEN S
  ELSE LET info == MapGet(S.hl, e)
       IN [S EXCEPT !.st[e] = [p \in StyleProps |-> info.originalStyles[p]],
                    !.cls[e] = @ \ {ClsHighlight, ClsMultiple},
                    !.ds[e] = NoData,
                    !.hl = MapDelete(@, e)]

\* removeHighlight(element, errorId); errorId = NoId is the omitted (falsy) id
removeHighlight(S, e, errorId) ==
  IF ~MapHas(S.hl, e) THEN S
  ELSE IF errorId # NoId THEN
    LET k == MapIndex(S.hl, e)
        errors2 == SelectSeq(S.hl[k].errors, LAMBDA a : a.id # errorId)
        S1 == [S EXCEPT !.hl[k].errors = errors2]
    IN IF Len(errors2) = 0 THEN removeAllHighlights(S1, e)
       ELSE [S1 EXCEPT !.ds[e] = IdsOf(errors2),
                       !.cls[e] = IF Len(errors2) = 1 THEN @ \ {ClsMultiple} ELSE @]
  ELSE removeAllHighlights(S, e)

\* removeAllHighlightsFromPage(): the loop over highlights.keys(), then clear()
RECURSIVE removeEachInDocument(_, _, _)
removeEachInDocument(S, doc, keys) ==
  IF keys = << >> THEN S
  ELSE removeEachInDocument(IF doc[Head(keys)] THEN removeAllHighlights(S, Head(keys)) ELSE S,
                            doc, Tail(keys))

removeAllHighlightsFromPage(S, doc) ==
  LET keys == [i \in 1..Len(S.hl) |-> S.hl[i].el]
  IN [removeEachInDocument(S, doc, keys) EXCEPT !.hl = << >>]

\* ------------------------------------------------------ ElementIdentifier
Listeners == {"onClick", Null}   \* a named function, a null listener

\* adding to an array where the code adds to a Set
OrderedAddTwice(acc, e) == Append(acc, e)

OrderedAdd(acc, e) == IF Contains(acc, e) THEN acc ELSE Append(acc, e)

RECURSIVE AddAttached(_, _, _)
AddAttached(acc, els, doc) ==
  IF els = << >> THEN acc
  ELSE AddAttached(IF doc[Head(els)] THEN OrderedAdd(acc, Head(els)) ELSE acc, Tail(els), doc)

RECURSIVE AddEach(_, _, _)
AddEach(acc, lists, doc) ==
  IF lists = << >> THEN acc ELSE AddEach(AddAttached(acc, Head(lists), doc), Tail(lists), doc)

\* extractFunctionNamesFromStack: the names of the frames written "at name ("
extractFunctionNamesFromStack(stack) ==
  {stack.frames[i].fn : i \in {j \in 1..Len(stack.frames) : stack.frames[j].fn # ""}}

\* findElementsFromEventListeners: reading listener.name of a null listener throws
ListenerLookupThrows(error, reg) ==
  error.stack.present /\ \E i \in 1..Len(reg) : reg[i].listener = Null

RECURSIVE findElementsFromEventListeners(_, _, _, _)
findElementsFromEventListeners(error, reg, doc, acc) ==
  IF ~error.stack.present \/ reg = << >> THEN acc
  ELSE LET entry == Head(reg)
           hit == entry.listener # "" /\ entry.listener \in extractFunctionNamesFromStack(error.stack)
       IN findElementsFromEventListeners(error, Tail(reg), doc,
            IF hit THEN AddAttached(acc, entry.elements, doc) ELSE acc)

findElementsFromEventTarget(error, doc, acc) ==
  IF error.eventTarget \in Elements /\ doc[error.eventTarget]
    THEN OrderedAdd(acc, error.eventTarget) ELSE acc

findElementsFromDOMReferences(error, doc, acc) ==
  IF ~error.stack.present THEN acc ELSE AddEach(acc, error.stack.refs, doc)

\* the literal heuristic run whatever the other heuristics found
findElementsFromStackTraceAlways(error, doc, acc) ==
  IF ~error.stack.present THEN acc
  ELSE findElementsFromDOMReferences(error, doc, AddEach(acc, error.stack.sels, doc))

findElementsFromStackTrace(error, doc, acc) ==
  IF ~error.stack.present THEN acc
  ELSE LET acc1 == AddEach(acc, error.stack.sels, doc)
       IN IF Len(acc1) = 0 THEN findElementsFromDOMReferences(error, doc, acc1) ELSE acc1

\* identifyElements: the three passes in the order the code makes them
identifyElements(error, reg, doc) ==
  findElementsFromStackTrace(error, doc,
    findElementsFromEventTarget(error, doc,
      findElementsFromEventListeners(error, reg, doc, << >>)))

\* ----------------------------------------------------------- SourceMapper
MapOutcomes == {"mapFull", "nomap", "error"}

\* what getSourceMap caches for each way the lookup can end
CacheValue(outcome) == IF outcome = "mapFull" THEN outcome ELSE Null

\* consumer.originalPositionFor(...).source for a position the map covers
OriginalSource(file) == IF file = "a.js" THEN "a.ts" ELSE "b.ts"

\* processStackLine rewriting the frame whatever getSourceMap returned
processStackLineAlways(frame, mapData) == [frame EXCEPT !.file = OriginalSource(frame.file)]

\* processStackLine on a frame, given what getSourceMap returned for its file
processStackLine(frame, mapData) ==
  IF mapData = "mapFull" THEN [frame EXCEPT !.file = OriginalSource(frame.file)] ELSE frame

\* processError whose getSourceMap never finds the file in the cache
processLinesUncached(frames, idx, out, cache) == [idx |-> idx, out |-> out]

\* the loop of processError, run until a frame's file is not in the cache
RECURSIVE processLines(_, _, _, _)
processLines(frames, idx, out, cache) ==
  IF idx > Len(frames) THEN [idx |-> idx, out |-> out]
  ELSE IF frames[idx].file \notin DOMAIN cache THEN [idx |-> idx, out |-> out]
  ELSE processLines(frames, idx + 1, Append(out, processStackLine(frames[idx], cache[frames[idx].file])), cache)

\* processError keeping only the lines that were rewritten
processedErrorDropping(error, out) ==
  IF ~error.stack.present THEN [error EXCEPT !.mapped = Null]
  ELSE LET kept == SelectSeq(out, LAMBDA f : f.file \notin {"a.js", "b.js"})
       IN [error EXCEPT !.stack.frames = kept,
                        !.mapped = IF Len(kept) >= 1 THEN kept[1].file ELSE Null]

\* the error object processError returns once every line is processed
processedError(error, out) ==
  IF ~error.stack.present THEN [error EXCEPT !.mapped = Null]
  ELSE [error EXCEPT !.stack.frames = out,
                     !.mapped = IF Len(out) >= 1 THEN out[1].file ELSE Null]

\* ---------------------------------------------------------- contentScript
areSimilarErrors(error1, error2) ==
  \/ error1.message = error2.message
  \/ /\ error1.loc.filename = error2.loc.filename
     /\ error1.loc.lineno = error2.loc.lineno
     /\ error1.loc.colno = error2.loc.colno

\* findSimilarError: findIndex, 0 for "not found"
findSimilarError(list, error) ==
  IF \E i \in 1..Len(list) : areSimilarErrors(list[i], error)
    THEN CHOOSE i \in 1..Len(list) : /\ areSimilarErrors(list[i], error)
                                     /\ \A j \in 1..(i-1) : ~areSimilarErrors(list[j], error)
    ELSE 0

\* elements.map(element => ({element, errorId: highlighter.highlightElement(element, error)}))
RECURSIVE highlightEach(_, _, _, _, _, _, _)
highlightEach(S, doc, els, error, now, rnds, acc) ==
  IF els = << >> THEN [S |-> S, assoc |-> acc]
  ELSE LET r == highlightElement(S, doc, Head(els), error.cap, generateErrorId(now, Head(rnds)))
       IN highlightEach(r.S, doc, Tail(els), error, now, Tail(rnds),
                        Append(acc, [element |-> Head(els), errorId |-> r.ret]))

\* -------------------------------------------------------- SettingsManager
PageDomain == <<"site", "test">>

\* backgroundOpacity is counted in tenths
DefaultSettings ==
  [globalEnabled |-> TRUE, captureConsoleErrors |-> FALSE,
   highlightColor |-> "#ff0000", borderStyle |-> "dashed", borderWidth |-> 2,
   useBackground |-> FALSE, backgroundOpacity |-> 2,
   domainListType |-> "blocklist", domainList |-> << >>,
   ignoredPatterns |-> << >>, sourcemapTimeout |-> 5000, sourcemapRetries |-> 2]

\* the settings objects carried by settingsUpdated messages
ToggleOff == [globalEnabled |-> FALSE]
ToggleOn == [globalEnabled |-> TRUE]
CustomSettings ==
  [DefaultSettings EXCEPT !.ignoredPatterns = <<PatRegex>>, !.highlightColor = "#00ff00",
                          !.sourcemapRetries = 0, !.domainList = <<PageDomain>>]
SettingsMsgs == {ToggleOff, ToggleOn, CustomSettings}

\* property read on an object that may not carry the key: << >> is undefined
Get(obj, k) == IF k \in DOMAIN obj THEN <<obj[k]>> ELSE << >>

\* a || b, where falsy is the falsy value of a's type
OrElse(v, falsy, d) == IF v = << >> \/ v[1] = falsy THEN d ELSE v[1]

\* { ...a, ...b }
Merge(a, b) == [k \in (DOMAIN a) \cup (DOMAIN b) |-> IF k \in DOMAIN b THEN b[k] ELSE a[k]]

\* d === domain, or d = "*.suffix" and domain.endsWith(".suffix")
DomainMatches(d, domain) ==
  \/ d = domain
  \/ /\ Len(d) >= 1 /\ d[1] = "*"
     /\ Len(domain) > Len(d) - 1
     /\ \A i \in 1..(Len(d) - 1) : domain[Len(domain) - (Len(d) - 1) + i] = d[i + 1]

\* isEnabledForDomain without the cache: the value computed from the settings
computeEnabledForDomain(s, domain) ==
  IF ~s.globalEnabled THEN FALSE
  ELSE LET isInList == \E i \in 1..Len(s.domainList) : DomainMatches(s.domainList[i], domain)
       IN IF s.domainListType = "allowlist" THEN isInList ELSE ~isInList

\* isEnabledForDomain: the cached answer when there is one
isEnabledForDomain(s, cache, domain) ==
  IF domain \in DOMAIN cache THEN cache[domain] ELSE computeEnabledForDomain(s, domain)

\* domainEnabledCache after isEnabledForDomain(domain)
cacheAfterLookup(s, cache, domain) ==
  IF domain \in DOMAIN cache THEN cache
  ELSE [d \in (DOMAIN cache) \cup {domain} |->
          IF d = domain THEN computeEnabledForDomain(s, domain) ELSE cache[d]]

\* Highlighter.init(settings): the style taken from the settings, with defaults
initStyle(s) ==
  [color |-> <<OrElse(Get(s, "highlightColor"), "", "#ff0000")>>,
   borderStyle |-> <<OrElse(Get(s, "borderStyle"), "", "dashed")>>,
   borderWidth |-> <<OrElse(Get(s, "borderWidth"), 0, 2)>>,
   useBackground |-> <<OrElse(Get(s, "useBackground"), FALSE, FALSE)>>,
   backgroundOpacity |-> <<OrElse(Get(s, "backgroundOpacity"), 0, 2)>>]

\* Highlighter.updateStyle({color: settings.highlightColor, ...})
updateStyle(style, s) ==
  Merge(style, [color |-> Get(s, "highlightColor"),
                borderStyle |-> Get(s, "borderStyle"),
                borderWidth |-> Get(s, "borderWidth"),
                useBackground |-> Get(s, "useBackground"),
                backgroundOpacity |-> Get(s, "backgroundOpacity")])

\* SourceMapper.init(settings)
mapperInit(s) ==
  [fetchTimeout |-> OrElse(Get(s, "sourcemapTimeout"), 0, 5000),
   fetchRetries |-> OrElse(Get(s, "sourcemapRetries"), 0, 2)]

\* fetchWithRetry before it is called: no attempt made, no delay waited
NotFetched == [status |-> "none", retries |-> 0, attempts |-> 0, waits |-> 0, configured |-> 0]

\* ------------------------------------------------- handleError, continued
NewTask(err) == [err |-> err, idx |-> 1, out |-> << >>, phase |-> "run"]

\* handleError after `await sourceMapper.processError(error)` has returned
handleErrorFinish(st, err, env) ==
  LET existingErrorIndex == findSimilarError(st.list, err)
  IN IF existingErrorIndex # 0
       THEN [st EXCEPT !.list[existingErrorIndex].count = @ + 1,
                       !.sent = Append(@, err.cap)]
     ELSE IF ListenerLookupThrows(err, env.reg)
       THEN consoleErrorCall(SigHandleFailed, 0, env, st)
     ELSE LET els == identifyElements(err, env.reg, env.doc)
              r == highlightEach(st.S, env.doc, els, err, env.ts, env.rnds, << >>)
              err2 == IF Len(els) > 0 THEN [err EXCEPT !.associatedElements = r.assoc] ELSE err
          IN [st EXCEPT !.S = r.S, !.list = Append(@, err2), !.sent = Append(@, err.cap)]

\* a suspended handleError runs until processError needs a file that is not cached,
\* or to its end
runTask(st, t, env) ==
  LET frames == t.err.stack.frames
      pl == processLines(frames, t.idx, t.out, st.cache)
      rest == st.tasks \ {t}
  IN IF t.err.stack.present /\ pl.idx <= Len(frames)
       THEN [st EXCEPT !.tasks = rest \cup {[t EXCEPT !.idx = pl.idx, !.out = pl.out, !.phase = "fetch"]}]
     ELSE handleErrorFinish([st EXCEPT !.tasks = rest], processedError(t.err, pl.out), env)

RECURSIVE runAll(_, _, _)
runAll(st, errs, env) ==
  IF errs = << >> THEN st ELSE runAll(runTask(st, NewTask(Head(errs)), env), Tail(errs), env)

\* ---------------------------------------------------------------- actions
Env(thr, thrN, rnds) ==
  [hs |-> errorHandlers, thr |-> thr, thrN |-> thrN, en |-> isEnabled,
   pats |-> ignoredPatterns, cc |-> captureConsole, ts |-> clock,
   reg |-> registry, doc |-> inDoc, rnds |-> rnds]

Start ==
  [log |-> capLog, inv |-> invoked, out |-> consoleOut, spawned |-> << >>, aborted |-> FALSE,
   tasks |-> tasks, list |-> capturedErrors, sent |-> sent, cache |-> sourceMapCache, S |-> HLState]

FirstStyleNext(hl2) ==
  [e \in Elements |-> IF MapHas(hl2, e) /\ ~MapHas(highlights, e) THEN elStyle[e] ELSE firstStyle[e]]

\* the state left by a handler whose effects are accumulated in st
Commit(st) ==
  /\ capLog' = st.log
  /\ invoked' = st.inv
  /\ consoleOut' = st.out
  /\ tasks' = st.tasks \cup {NewTask(st.spawned[i]) : i \in 1..Len(st.spawned)}
  /\ capturedErrors' = st.list
  /\ sent' = st.sent
  /\ sourceMapCache' = st.cache
  /\ highlights' = st.S.hl
  /\ classList' = st.S.cls
  /\ dataset' = st.S.ds
  /\ elStyle' = st.S.st
  /\ firstStyle' = FirstStyleNext(st.S.hl)

RndSeqs == [1..Cardinality(Elements) -> RandVals]

\* an event loop that would start a task only once every handleError has returned
NoPendingHandler == tasks = {}

\* a task of the event loop starts only when no handleError continuation is runnable
NoMicrotask == \A t \in tasks : t.phase # "run"
MockConsumers == Consumers \ {"handleError"}
MaxLog == 2 * MaxCaptures

\* a signal delivered by the host: the capture, then the consumers' synchronous
\* parts and the microtasks they leave behind
Deliver(sig, thr, thrN, rnds) ==
  /\ NoMicrotask
  /\ LET env == Env(thr, thrN, rnds)
         st1 == captureSignal(sig, 1, env, Start)
         st2 == runAll([st1 EXCEPT !.spawned = << >>], st1.spawned, env)
     IN /\ Len(st2.log) <= MaxLog
        /\ Commit(st2)
        /\ abortedCaps' = IF st2.aborted THEN abortedCaps \cup {Len(capLog) + 1} ELSE abortedCaps
  /\ UNCHANGED <<capVars, unregistered, opCount, clock, inDoc, pageOps, attachCount, registry, response, cmdCount, resetAt, setVars, netVars, tipVars, mgrVars>>

handleRuntimeError(sig, thr, thrN, rnds) == sig.type = "runtime" /\ Deliver(sig, thr, thrN, rnds)

handlePromiseRejection(sig, thr, thrN, rnds) == sig.type = "promise" /\ Deliver(sig, thr, thrN, rnds)

\* the page calls console.error(string) or console.error(e)
consoleError(sig, thrN, rnds) ==
  /\ NoMicrotask
  /\ LET env == Env({}, thrN, rnds)
         st1 == consoleErrorCall(sig, 0, env, Start)
         st2 == runAll([st1 EXCEPT !.spawned = << >>], st1.spawned, env)
     IN /\ Len(st2.log) <= MaxLog
        /\ Commit(st2)
        /\ abortedCaps' = IF st2.aborted THEN abortedCaps \cup {Len(capLog) + 1} ELSE abortedCaps
  /\ pageOps < MaxPageOps
  /\ pageOps' = pageOps + 1
  /\ UNCHANGED <<capVars, unregistered, opCount, clock, inDoc, attachCount, registry, response, cmdCount, resetAt, setVars, netVars, tipVars, mgrVars>>

\* a map lookup started by getSourceMap comes back: the catch block's console.error
\* when it failed, the cache write, and the suspended handleError running on;
\* late says that a handleError started by that console.error gets its turn first
FetchDone(t, outcome, rnds, late) ==
  /\ NoMicrotask
  /\ t \in tasks /\ t.phase = "fetch"
  /\ LET env == Env({}, {}, rnds)
         frame == t.err.stack.frames[t.idx]
         st1 == IF outcome = "error" THEN consoleErrorCall(SigFetchFailed, 0, env, Start) ELSE Start
         t2 == [t EXCEPT !.idx = @ + 1, !.phase = "run",
                         !.out = Append(@, processStackLine(frame, CacheValue(outcome)))]
         st2 == [st1 EXCEPT !.cache = [f \in (DOMAIN @) \cup {frame.file} |->
                                         IF f = frame.file THEN CacheValue(outcome) ELSE @[f]],
                            !.tasks = (@ \ {t}) \cup {t2}]
         st3 == IF late /\ st2.spawned # << >> THEN st2 ELSE runTask(st2, t2, env)
     IN /\ late => st2.spawned # << >>
        /\ Len(st3.log) <= MaxLog
        /\ Commit(st3)
  /\ UNCHANGED <<capVars, abortedCaps, unregistered, opCount, clock, inDoc, pageOps, attachCount, registry, response, cmdCount, resetAt, setVars, netVars, tipVars, mgrVars>>

\* the microtasks of a handleError started by a capture made inside another handler
ResumeTask(t, rnds) ==
  /\ t \in tasks /\ t.phase = "run"
  /\ LET st1 == runTask(Start, t, Env({}, {}, rnds))
     IN /\ Len(st1.log) <= MaxLog
        /\ Commit(st1)
  /\ UNCHANGED <<capVars, abortedCaps, unregistered, opCount, clock, inDoc, pageOps, attachCount, registry, response, cmdCount, resetAt, setVars, netVars, tipVars, mgrVars>>

\* ----------------------------------------------------- ErrorCapturer API
registerErrorHandler(h) ==
  /\ opCount < MaxHandlerOps
  /\ errorHandlers' = IF ~Contains(errorHandlers, h) THEN Append(errorHandlers, h) ELSE errorHandlers
  /\ unregistered' = unregistered \ {h}
  /\ opCount' = opCount + 1
  /\ UNCHANGED <<isEnabled, ignoredPatterns, captureConsole, capLog, invoked, consoleOut, abortedCaps,
                 clock, domVars, hlVars, csVars, setVars, netVars, tipVars, mgrVars>>

unregisterErrorHandler(h) ==
  /\ opCount < MaxHandlerOps
  /\ LET index == IndexOf(errorHandlers, h)
     IN errorHandlers' = IF index # 0 THEN RemoveAt(errorHandlers, index) ELSE errorHandlers
  /\ unregistered' = unregistered \cup {h}
  /\ opCount' = opCount + 1
  /\ UNCHANGED <<isEnabled, ignoredPatterns, captureConsole, capLog, invoked, consoleOut, abortedCaps,
                 clock, domVars, hlVars, csVars, setVars, netVars, tipVars, mgrVars>>

setEnabled(enabled) ==
  /\ opCount < MaxHandlerOps
  /\ isEnabled' = enabled
  /\ opCount' = opCount + 1
  /\ UNCHANGED <<ignoredPatterns, errorHandlers, captureConsole, capLog, invoked, consoleOut, abortedCaps, unregistered,
                 clock, domVars, hlVars, csVars, setVars, netVars, tipVars, mgrVars>>

setIgnoredPatterns(patterns) ==
  /\ opCount < MaxHandlerOps
  /\ ignoredPatterns' = patterns
  /\ opCount' = opCount + 1
  /\ UNCHANGED <<isEnabled, errorHandlers, captureConsole, capLog, invoked, consoleOut, abortedCaps, unregistered,
                 clock, domVars, hlVars, csVars, setVars, netVars, tipVars, mgrVars>>

\* ------------------------------------------------ commands to the page
\* handleMessage case 'getErrors'
getErrors ==
  /\ NoMicrotask /\ cmdCount < MaxCommands
  /\ response' = capturedErrors
  /\ cmdCount' = cmdCount + 1
  /\ UNCHANGED <<capVars, obsVars, clock, domVars, hlVars, capturedErrors, tasks, sourceMapCache, sent,
                 registry, resetAt, setVars, netVars, tipVars, mgrVars>>

SetHL(S) ==
  /\ highlights' = S.hl
  /\ classList' = S.cls
  /\ dataset' = S.ds
  /\ elStyle' = S.st
  /\ firstStyle' = FirstStyleNext(S.hl)

\* handleMessage case 'clearErrors' -> clearErrors()
clearErrors ==
  /\ NoMicrotask /\ cmdCount < MaxCommands
  /\ SetHL(removeAllHighlightsFromPage(HLState, inDoc))
  /\ capturedErrors' = << >>
  /\ resetAt' = Len(capLog)
  /\ cmdCount' = cmdCount + 1
  /\ UNCHANGED <<capVars, obsVars, clock, inDoc, pageOps, attachCount, tasks, sourceMapCache, sent,
                 registry, response, setVars, netVars, tipVars, mgrVars>>

\* handleMessage case 'clearHighlights'
clearHighlights ==
  /\ NoMicrotask /\ cmdCount < MaxCommands
  /\ SetHL(removeAllHighlightsFromPage(HLState, inDoc))
  /\ cmdCount' = cmdCount + 1
  /\ UNCHANGED <<capVars, obsVars, clock, inDoc, pageOps, attachCount, capturedErrors, tasks,
                 sourceMapCache, sent, registry, response, resetAt, setVars, netVars, tipVars, mgrVars>>

RECURSIVE removeEachAssociation(_, _)
removeEachAssociation(S, assoc) ==
  IF assoc = << >> THEN S
  ELSE removeEachAssociation(removeHighlight(S, Head(assoc).element, Head(assoc).errorId), Tail(assoc))

OwnsId(error, errorId) ==
  \E i \in 1..Len(error.associatedElements) : error.associatedElements[i].errorId = errorId

\* a clearError that splices the record and leaves the highlighter alone
clearErrorListOnly(list, S, errorId) ==
  IF \E i \in 1..Len(list) : OwnsId(list[i], errorId)
    THEN [list |-> RemoveAt(list, CHOOSE i \in 1..Len(list) :
                                    OwnsId(list[i], errorId) /\ \A j \in 1..(i-1) : ~OwnsId(list[j], errorId)),
          S |-> S]
    ELSE [list |-> list, S |-> S]

\* clearError(errorId): findIndex, the removals, the splice
clearErrorResult(list, S, errorId) ==
  IF \E i \in 1..Len(list) : OwnsId(list[i], errorId)
    THEN LET errorIndex == CHOOSE i \in 1..Len(list) :
                             OwnsId(list[i], errorId) /\ \A j \in 1..(i-1) : ~OwnsId(list[j], errorId)
         IN [list |-> RemoveAt(list, errorIndex),
             S |-> removeEachAssociation(S, list[errorIndex].associatedElements)]
    ELSE [list |-> list, S |-> S]

KnownIds == {generateErrorId(t, r) : t \in 0..MaxClock, r \in RandVals}

\* handleMessage case 'clearError' with a truthy message.errorId
clearError(errorId) ==
  /\ NoMicrotask /\ cmdCount < MaxCommands
  /\ LET r == clearErrorResult(capturedErrors, HLState, errorId)
     IN SetHL(r.S) /\ capturedErrors' = r.list
  /\ cmdCount' = cmdCount + 1
  /\ UNCHANGED <<capVars, obsVars, clock, inDoc, pageOps, attachCount, tasks, sourceMapCache, sent,
                 registry, response, resetAt, setVars, netVars, tipVars, mgrVars>>

\* Highlighter.flashHighlight(element): nothing for an element outside the document or
\* without an entry, else the flash class is added for 1500 ms
flashElement(S, doc, e) ==
  IF ~doc[e] \/ ~MapHas(S.hl, e) THEN S
  ELSE [S EXCEPT !.cls[e] = @ \cup {ClsFlash}]

\* the elements document.querySelectorAll(`[data-jev-error-id*="${elementId}"]`) finds:
\* those in the document whose id list holds elementId (no id here is a substring of
\* another one)
FlashTargets(elementId) ==
  {e \in Elements : inDoc[e] /\ dataset[e] # NoData /\ Contains(dataset[e], elementId)}

\* handleMessage case 'flashHighlight' with a truthy message.elementId
flashHighlight(elementId) ==
  /\ NoMicrotask /\ cmdCount < MaxCommands
  /\ classList' = [e \in Elements |->
                     IF e \in FlashTargets(elementId) THEN flashElement(HLState, inDoc, e).cls[e]
                     ELSE classList[e]]
  /\ cmdCount' = cmdCount + 1
  /\ UNCHANGED <<capVars, obsVars, clock, inDoc, dataset, elStyle, pageOps, hlVars, capturedErrors, tasks,
                 sourceMapCache, sent, registry, response, resetAt, setVars, netVars, tipVars, mgrVars>>

\* the timer flashHighlight set for element e fires: the flash class is removed
flashTimerFires(e) ==
  /\ NoMicrotask /\ ClsFlash \in classList[e]
  /\ classList' = [classList EXCEPT ![e] = @ \ {ClsFlash}]
  /\ UNCHANGED <<capVars, obsVars, clock, inDoc, dataset, elStyle, pageOps, hlVars, csVars, setVars,
                 netVars, tipVars, mgrVars>>

\* an updateSettings whose restyling starts by removing every highlight
settingsUpdatedClearing(msg) ==
  /\ NoMicrotask /\ cmdCount < MaxCommands
  /\ LET merged == Merge(settings, msg)
     IN /\ settings' = merged
        /\ isEnabled' = isEnabledForDomain(merged, domainEnabledCache, PageDomain)
        /\ domainEnabledCache' = cacheAfterLookup(merged, domainEnabledCache, PageDomain)
  /\ ignoredPatterns' = OrElse(Get(msg, "ignoredPatterns"), << >>, << >>)
  /\ hlStyle' = updateStyle(hlStyle, msg)
  /\ SetHL(removeAllHighlightsFromPage(HLState, inDoc))
  /\ fetchCfg' = mapperInit(msg)
  /\ lastSettingsMsg' = <<msg>>
  /\ sharedList' = (sharedList /\ "domainList" \notin DOMAIN msg)
  /\ cmdCount' = cmdCount + 1
  /\ UNCHANGED <<errorHandlers, captureConsole, obsVars, clock, inDoc, pageOps, attachCount, capturedErrors,
                 tasks, sourceMapCache, sent, registry, response, resetAt, netVars, tipVars, defaultDomainList,
                 clearsPending>>

\* handleMessage case 'settingsUpdated' -> updateSettings(settings)
settingsUpdated(msg) ==
  /\ NoMicrotask /\ cmdCount < MaxCommands
  /\ LET merged == Merge(settings, msg)
     IN /\ settings' = merged
        /\ isEnabled' = isEnabledForDomain(merged, domainEnabledCache, PageDomain)
        /\ domainEnabledCache' = cacheAfterLookup(merged, domainEnabledCache, PageDomain)
  /\ ignoredPatterns' = OrElse(Get(msg, "ignoredPatterns"), << >>, << >>)
  /\ hlStyle' = updateStyle(hlStyle, msg)
  /\ fetchCfg' = mapperInit(msg)
  /\ lastSettingsMsg' = <<msg>>
  /\ sharedList' = (sharedList /\ "domainList" \notin DOMAIN msg)
  /\ cmdCount' = cmdCount + 1
  /\ UNCHANGED <<errorHandlers, captureConsole, obsVars, clock, domVars, hlVars, capturedErrors, tasks,
                 sourceMapCache, sent, registry, response, resetAt, netVars, tipVars, defaultDomainList,
                 clearsPending>>

\* ------------------------------------------------------------- the page
\* element.addEventListener(type, listener) through the tracking override
addEventListener(listener, e) ==
  /\ NoMicrotask /\ pageOps < MaxPageOps
  /\ registry' = IF \E i \in 1..Len(registry) : registry[i].listener = listener
                   THEN [i \in 1..Len(registry) |->
                           IF registry[i].listener = listener
                             THEN [registry[i] EXCEPT !.elements = Append(@, e)] ELSE registry[i]]
                   ELSE Append(registry, [listener |-> listener, elements |-> <<e>>])
  /\ pageOps' = pageOps + 1
  /\ UNCHANGED <<capVars, obsVars, clock, inDoc, classList, dataset, elStyle, hlVars, capturedErrors,
                 tasks, sourceMapCache, sent, response, cmdCount, resetAt, setVars, netVars, tipVars, mgrVars>>

\* the page detaches an element from the document, or attaches it again
PageRemove(e) ==
  /\ NoMicrotask /\ pageOps < MaxPageOps /\ inDoc[e]
  /\ inDoc' = [inDoc EXCEPT ![e] = FALSE]
  /\ pageOps' = pageOps + 1
  /\ UNCHANGED <<capVars, obsVars, clock, classList, dataset, elStyle, hlVars, csVars, setVars, netVars, tipVars, mgrVars>>

PageInsert(e) ==
  /\ NoMicrotask /\ pageOps < MaxPageOps /\ ~inDoc[e]
  /\ inDoc' = [inDoc EXCEPT ![e] = TRUE]
  /\ pageOps' = pageOps + 1
  /\ UNCHANGED <<capVars, obsVars, clock, classList, dataset, elStyle, hlVars, csVars, setVars, netVars, tipVars, mgrVars>>

\* the page writes one inline style property of an element
PageSetStyle(e, p, v) ==
  /\ pageOps < MaxPageOps /\ elStyle[e][p] # v
  /\ elStyle' = [elStyle EXCEPT ![e][p] = v]
  /\ pageOps' = pageOps + 1
  /\ UNCHANGED <<capVars, obsVars, clock, inDoc, classList, dataset, hlVars, csVars, setVars, netVars, tipVars, mgrVars>>

\* Date.now() advances
Tick ==
  /\ clock < MaxClock
  /\ clock' = clock + 1
  /\ UNCHANGED <<capVars, obsVars, domVars, hlVars, csVars, setVars, netVars, tipVars, mgrVars>>

\* -------------------------------------------------- Highlighter API calls
ErrorRefs == {1, 2}

\* highlighter.highlightElement(element, error) called directly
attach(e, error, rnd) ==
  /\ attachCount < MaxAttach
  /\ SetHL(highlightElement(HLState, inDoc, e, error, generateErrorId(clock, rnd)).S)
  /\ attachCount' = attachCount + 1
  /\ UNCHANGED <<capVars, obsVars, clock, inDoc, pageOps, csVars, setVars, netVars, tipVars, mgrVars>>

\* highlighter.removeHighlight(element, errorId) called directly; NoId is the omitted id
detach(e, errorId) ==
  /\ SetHL(removeHighlight(HLState, e, errorId))
  /\ UNCHANGED <<capVars, obsVars, clock, inDoc, pageOps, attachCount, csVars, setVars, netVars, tipVars, mgrVars>>

\* ------------------------------------------- SourceMapper.fetchWithRetry
\* fetchWithRetry(url) is called: `let retries = this.fetchRetries`, then the first fetch
fetchWithRetry(url) ==
  /\ fetchRun[url].status = "none"
  /\ fetchRun' = [fetchRun EXCEPT ![url] =
                    [status |-> "attempt", retries |-> fetchCfg.fetchRetries, attempts |-> 1, waits |-> 0,
                     configured |-> settings.sourcemapRetries]]
  /\ UNCHANGED <<capVars, obsVars, clock, domVars, hlVars, csVars, setVars, tipVars, mgrVars>>

\* the fetch rejects, is aborted by the timeout, or answers with a status that is not ok:
\* the catch block counts down and either rethrows or starts the 500 ms delay
attemptFails(url) ==
  /\ fetchRun[url].status = "attempt"
  /\ LET retries == fetchRun[url].retries - 1
     IN fetchRun' = [fetchRun EXCEPT ![url].retries = retries,
                                     ![url].status = IF retries < 0 THEN "thrown" ELSE "backoff"]
  /\ UNCHANGED <<capVars, obsVars, clock, domVars, hlVars, csVars, setVars, tipVars, mgrVars>>

\* the 500 ms delay is over: `while (retries >= 0)` holds and the next fetch starts
backoffElapsed(url) ==
  /\ fetchRun[url].status = "backoff"
  /\ fetchRun' = [fetchRun EXCEPT ![url].status = "attempt", ![url].attempts = @ + 1, ![url].waits = @ + 1]
  /\ UNCHANGED <<capVars, obsVars, clock, domVars, hlVars, csVars, setVars, tipVars, mgrVars>>

\* the response is ok and its text is returned
attemptSucceeds(url) ==
  /\ fetchRun[url].status = "attempt"
  /\ fetchRun' = [fetchRun EXCEPT ![url].status = "returned"]
  /\ UNCHANGED <<capVars, obsVars, clock, domVars, hlVars, csVars, setVars, tipVars, mgrVars>>

\* ---------------------------------------------------------- initial states
EmptyMap == [k \in {} |-> Null]

InitObserved ==
  /\ capLog = << >> /\ invoked = << >> /\ consoleOut = << >> /\ abortedCaps = {} /\ unregistered = {}
  /\ opCount = 0
  /\ clock = 0 /\ pageOps = 0 /\ cmdCount = 0
  /\ response = << >> /\ sent = << >> /\ lastSettingsMsg = << >>
  /\ resetAt = -1
  /\ fetchRun = [u \in FetchUrls |-> NotFetched]
  /\ tooltipVisible = FALSE /\ tooltipTimeout = 0 /\ timers = {} /\ timerCount = 0
  /\ shownAt = -1
  /\ defaultDomainList = << >> /\ clearsPending = 0

InitPage ==
  /\ inDoc = [e \in Elements |-> TRUE]
  /\ classList = [e \in Elements |-> {}]
  /\ dataset = [e \in Elements |-> NoData]
  /\ highlights = << >>
  /\ firstStyle = [e \in Elements |-> UnsetStyle]
  /\ attachCount = 0
  /\ capturedErrors = << >> /\ tasks = {} /\ sourceMapCache = EmptyMap /\ registry = << >>

\* the modules as init(settings) leaves them
InitModules(s) ==
  /\ settings = s
  /\ sharedList = (s = DefaultSettings)   \* nothing stored: { ...this.defaultSettings }
  /\ isEnabled = s.globalEnabled
  /\ ignoredPatterns = s.ignoredPatterns
  /\ captureConsole = s.captureConsoleErrors
  /\ hlStyle = initStyle(s)
  /\ fetchCfg = mapperInit(s)

\* settings under which contentScript.js init() goes on to install the pipeline
PageSettings ==
  {DefaultSettings, [DefaultSettings EXCEPT !.captureConsoleErrors = TRUE]}

\* the page after contentScript.js init() has run with settings s
InitPipeline(s) ==
  /\ InitObserved /\ InitPage
  /\ computeEnabledForDomain(s, PageDomain)
  /\ InitModules(s)
  /\ domainEnabledCache = cacheAfterLookup(s, EmptyMap, PageDomain)
  /\ errorHandlers = <<"handleError">>
  /\ elStyle = [e \in Elements |-> UnsetStyle]

Throwers == SUBSET (MockConsumers \cap SeqToSet(errorHandlers))

\* the host's signals reaching the installed pipeline, and the lookups coming back
Captures ==
  \/ \E sig \in RawSignals, rnds \in RndSeqs :
       Len(capLog) < MaxCaptures /\ handleRuntimeError(sig, {}, {}, rnds)
  \/ \E sig \in RawSignals, rnds \in RndSeqs :
       Len(capLog) < MaxCaptures /\ handlePromiseRejection(sig, {}, {}, rnds)
  \/ \E t \in tasks, outcome \in MapOutcomes, rnds \in RndSeqs : FetchDone(t, outcome, rnds, FALSE)

\* the page with the default settings, queried by the panel
Init == InitPipeline(DefaultSettings)

Next ==
  \/ Captures
  \/ getErrors
  \/ Tick

Spec == Init /\ [][Next]_vars

\* the page with logged-error capture off or on, the extension's own console.error
\* calls included
InitLogged == \E s \in PageSettings : InitPipeline(s)

NextLogged ==
  \/ Captures
  \/ \E t \in tasks, rnds \in RndSeqs : FetchDone(t, "error", rnds, TRUE)
  \/ \E t \in tasks, rnds \in RndSeqs : ResumeTask(t, rnds)

SpecLogged == InitLogged /\ [][NextLogged]_vars

\* the page with the default settings, one error cleared from the panel
NextClear ==
  \/ Captures
  \/ \E id \in KnownIds : clearError(id)
  \/ \E e \in Elements : PageRemove(e)

SpecClear == Init /\ [][NextClear]_vars

\* the page with the default settings, receiving settings updates
NextSettings ==
  \/ Captures
  \/ \E msg \in SettingsMsgs : settingsUpdated(msg)

SpecSettings == Init /\ [][NextSettings]_vars

\* the page with the default settings, receiving every command of the panel
NextCommands ==
  \/ Captures
  \/ getErrors
  \/ clearErrors
  \/ clearHighlights
  \/ \E id \in KnownIds : clearError(id)
  \/ \E id \in KnownIds : flashHighlight(id)
  \/ \E e \in Elements : flashTimerFires(e)
  \/ \E msg \in SettingsMsgs : settingsUpdated(msg)

SpecCommands == Init /\ [][NextCommands]_vars

\* the page started with stored settings of the user's, receiving settings updates
StoredSettings ==
  [DefaultSettings EXCEPT !.ignoredPatterns = <<PatRegex>>, !.highlightColor = "#00ff00",
                          !.sourcemapTimeout = 1000, !.sourcemapRetries = 0]

InitPartial == \E s \in {DefaultSettings, StoredSettings} : InitPipeline(s)

SpecPartial == InitPartial /\ [][NextSettings]_vars

\* the page with the default settings, registering event listeners
NextListeners ==
  \/ Captures
  \/ \E l \in Listeners, e \in Elements : addEventListener(l, e)

SpecListeners == Init /\ [][NextListeners]_vars

\* the page with the default settings, reset by the panel while the page drops elements
NextReset ==
  \/ Captures
  \/ clearErrors
  \/ \E e \in Elements : PageRemove(e)

SpecReset == Init /\ [][NextReset]_vars

\* the page with the default settings, resolving stacks of several frames while the
\* settings are updated
NextMapper ==
  \/ \E sig \in DeepSignals, rnds \in RndSeqs :
       Len(capLog) < MaxCaptures /\ handleRuntimeError(sig, {}, {}, rnds)
  \/ \E sig \in DeepSignals, rnds \in RndSeqs :
       Len(capLog) < MaxCaptures /\ handlePromiseRejection(sig, {}, {}, rnds)
  \/ \E t \in tasks, outcome \in MapOutcomes, rnds \in RndSeqs : FetchDone(t, outcome, rnds, FALSE)
  \/ \E msg \in SettingsMsgs : settingsUpdated(msg)

SpecMapper == Init /\ [][NextMapper]_vars

\* listeners the page registered before the first error
Registries ==
  {<< >>,
   <<[listener |-> "onClick", elements |-> <<"e2">>]>>,
   <<[listener |-> "onClick", elements |-> <<"e2", "e1">>]>>}

\* the page with the default settings and some listeners registered
InitIdentify ==
  /\ InitObserved
  /\ inDoc = [e \in Elements |-> TRUE]
  /\ classList = [e \in Elements |-> {}]
  /\ dataset = [e \in Elements |-> NoData]
  /\ highlights = << >>
  /\ firstStyle = [e \in Elements |-> UnsetStyle]
  /\ attachCount = 0
  /\ capturedErrors = << >> /\ tasks = {} /\ sourceMapCache = EmptyMap
  /\ registry \in Registries
  /\ InitModules(DefaultSettings)
  /\ domainEnabledCache = cacheAfterLookup(DefaultSettings, EmptyMap, PageDomain)
  /\ errorHandlers = <<"handleError">>
  /\ elStyle = [e \in Elements |-> UnsetStyle]

\* errors identified while the page drops elements
NextIdentify ==
  \/ \E sig \in IdentifySignals, rnds \in RndSeqs :
       Len(capLog) < MaxCaptures /\ handleRuntimeError(sig, {}, {}, rnds)
  \/ \E t \in tasks, outcome \in MapOutcomes, rnds \in RndSeqs : FetchDone(t, outcome, rnds, FALSE)
  \/ \E e \in Elements : PageRemove(e)

SpecIdentify == InitIdentify /\ [][NextIdentify]_vars

\* the page under every setting, with every command and page mutation
InitPageAny == \E s \in PageSettings : InitPipeline(s)

NextPage ==
  \/ Captures
  \/ \E t \in tasks, rnds \in RndSeqs : FetchDone(t, "error", rnds, TRUE)
  \/ \E t \in tasks, rnds \in RndSeqs : ResumeTask(t, rnds)
  \/ \E rnds \in RndSeqs : Len(capLog) < MaxCaptures /\ consoleError(SigLogged, {}, rnds)
  \/ getErrors
  \/ clearErrors
  \/ clearHighlights
  \/ \E id \in KnownIds : clearError(id)
  \/ \E msg \in SettingsMsgs : settingsUpdated(msg)
  \/ \E l \in Listeners, e \in Elements : addEventListener(l, e)
  \/ \E e \in Elements : PageRemove(e)
  \/ \E e \in Elements : PageInsert(e)
  \/ Tick

SpecPage == InitPageAny /\ [][NextPage]_vars

\* ------------------------------------------- the capturer used on its own
CapturerSettings ==
  {[DefaultSettings EXCEPT !.globalEnabled = g, !.captureConsoleErrors = c] : g \in BOOLEAN, c \in BOOLEAN}

InitCapturer ==
  /\ InitObserved /\ InitPage
  /\ \E s \in CapturerSettings : InitModules(s)
  /\ domainEnabledCache = EmptyMap
  /\ errorHandlers = << >>
  /\ elStyle = [e \in Elements |-> UnsetStyle]

\* signals without a stack: the consumers of a bare capturer resolve nothing
CapturerSignals == {[SigA EXCEPT !.stack = NoStack], [SigB EXCEPT !.stack = NoStack], SigC}
NoRnds == [i \in 1..Cardinality(Elements) |-> 0]

NextCapturer ==
  \/ \E h \in Consumers : registerErrorHandler(h)
  \/ \E h \in Consumers : unregisterErrorHandler(h)
  \/ \E b \in BOOLEAN : setEnabled(b)
  \/ \E p \in PatternLists : setIgnoredPatterns(p)
  \/ \E sig \in CapturerSignals, thr \in Throwers, thrN \in Throwers :
       Len(capLog) < MaxSignals /\ handleRuntimeError(sig, thr, thrN, NoRnds)
  \/ \E sig \in CapturerSignals, thr \in Throwers, thrN \in Throwers :
       Len(capLog) < MaxSignals /\ handlePromiseRejection(sig, thr, thrN, NoRnds)
  \/ \E sig \in LoggedSignals, thrN \in Throwers :
       Len(capLog) < MaxSignals /\ consoleError(sig, thrN, NoRnds)

SpecCapturer == InitCapturer /\ [][NextCapturer]_vars

\* ------------------------- the capturer as new ErrorCapturer(settings) leaves it
ConstructorSettings ==
  {[DefaultSettings EXCEPT !.globalEnabled = g, !.ignoredPatterns = p] : g \in BOOLEAN, p \in PatternLists}

InitConstructed ==
  /\ InitObserved /\ InitPage
  /\ settings \in ConstructorSettings
  /\ sharedList = (settings = DefaultSettings)
  /\ isEnabled = TRUE
  /\ ignoredPatterns = << >>
  /\ errorHandlers = << >>
  /\ captureConsole = FALSE
  /\ hlStyle = initStyle(DefaultSettings)
  /\ fetchCfg = mapperInit(DefaultSettings)
  /\ domainEnabledCache = EmptyMap
  /\ elStyle = [e \in Elements |-> UnsetStyle]

\* signals handed to the handlers of a constructed capturer
ConstructedSignals == {[SigA EXCEPT !.stack = NoStack], SigC, SigResource}

NextConstructed ==
  \/ \E h \in Consumers : registerErrorHandler(h)
  \/ \E sig \in ConstructedSignals :
       Len(capLog) < MaxSignals /\ handleRuntimeError(sig, {}, {}, NoRnds)
  \/ \E sig \in ConstructedSignals :
       Len(capLog) < MaxSignals /\ handlePromiseRejection(sig, {}, {}, NoRnds)

SpecConstructed == InitConstructed /\ [][NextConstructed]_vars

\* ------------------------------ the capturer's filter over patterns of every kind
MsgSplit == <<"(", "E", "a">>
PatOpen == <<"(">>
PatOpenE == <<"(", "E">>
InvalidPatterns == {PatInvalid, PatOpen, PatOpenE}
FilterPatterns == InvalidPatterns \cup {PatRegex, PatLiteral}
FilterLists == {<<p>> : p \in FilterPatterns} \cup {<<p, q>> : p \in FilterPatterns, q \in FilterPatterns}

\* a rejection whose reason is the string "(Ea", an error event with the message "(a"
SigSplit == [SigC EXCEPT !.message = MsgSplit]
SigParen == [type |-> "runtime", message |-> MsgParen, loc |-> LocC, target |-> Null, stack |-> NoStack]
FilterSignals == {[SigA EXCEPT !.stack = NoStack], [SigB EXCEPT !.stack = NoStack], SigC, SigSplit, SigParen}

InitFilter ==
  /\ InitObserved /\ InitPage
  /\ \E p \in FilterLists : InitModules([DefaultSettings EXCEPT !.ignoredPatterns = p])
  /\ domainEnabledCache = EmptyMap
  /\ errorHandlers = <<"h1">>
  /\ elStyle = [e \in Elements |-> UnsetStyle]

NextFilter ==
  \/ \E sig \in FilterSignals :
       Len(capLog) < MaxSignals /\ handleRuntimeError(sig, {}, {}, NoRnds)
  \/ \E sig \in FilterSignals :
       Len(capLog) < MaxSignals /\ handlePromiseRejection(sig, {}, {}, NoRnds)

SpecFilter == InitFilter /\ [][NextFilter]_vars

\* ------------------------- the page receiving rejections with non-Error reasons
RejectionSignals == {SigA, SigC, SigSplit}

NextRejections ==
  \/ \E sig \in RejectionSignals, rnds \in RndSeqs :
       Len(capLog) < MaxCaptures /\ handleRuntimeError(sig, {}, {}, rnds)
  \/ \E sig \in RejectionSignals, rnds \in RndSeqs :
       Len(capLog) < MaxCaptures /\ handlePromiseRejection(sig, {}, {}, rnds)
  \/ \E t \in tasks, outcome \in MapOutcomes, rnds \in RndSeqs : FetchDone(t, outcome, rnds, FALSE)

SpecRejections == Init /\ [][NextRejections]_vars

\* ------------------------------------ the settings manager used on its own
OtherDomain == <<"x">>
WildcardDomain == <<"*", "test">>   \* "*.test"
ManagerDomains == {PageDomain, OtherDomain}
ListedDomains == {PageDomain, WildcardDomain}

\* normalizeDomain strips protocol, path and port: a bare host name comes back as it is
normalizeDomain(domain) == domain

ManagerUpdates ==
  {ToggleOff, ToggleOn, [domainListType |-> "allowlist"], [domainList |-> <<PageDomain>>]}

\* updateSettings(newSettings): the merge; the cache is left as it is
updateSettings(newSettings) ==
  /\ opCount < MaxHandlerOps
  /\ settings' = Merge(settings, newSettings)
  /\ sharedList' = (sharedList /\ "domainList" \notin DOMAIN newSettings)
  /\ opCount' = opCount + 1
  /\ UNCHANGED <<capVars, capLog, invoked, consoleOut, abortedCaps, unregistered, clock, domVars, hlVars,
                 csVars, domainEnabledCache, hlStyle, fetchCfg, lastSettingsMsg, netVars, tipVars,
                 defaultDomainList, clearsPending>>

\* resetSettings(): a shallow copy of defaultSettings, whose domainList array addDomain
\* may have pushed to; the cache is left as it is
resetSettings ==
  /\ opCount < MaxHandlerOps
  /\ settings' = [DefaultSettings EXCEPT !.domainList = defaultDomainList]
  /\ sharedList' = TRUE
  /\ opCount' = opCount + 1
  /\ UNCHANGED <<capVars, capLog, invoked, consoleOut, abortedCaps, unregistered, clock, domVars, hlVars,
                 csVars, domainEnabledCache, hlStyle, fetchCfg, lastSettingsMsg, netVars, tipVars,
                 defaultDomainList, clearsPending>>

\* addDomain(domain) up to `await this.saveSettings()`: the push, when the domain is new
addDomain(domain) ==
  /\ opCount < MaxHandlerOps
  /\ LET normalizedDomain == normalizeDomain(domain)
     IN IF ~Contains(settings.domainList, normalizedDomain)
          THEN /\ settings' = [settings EXCEPT !.domainList = Append(@, normalizedDomain)]
               /\ defaultDomainList' = IF sharedList THEN Append(defaultDomainList, normalizedDomain)
                                       ELSE defaultDomainList
               /\ clearsPending' = clearsPending + 1
          ELSE UNCHANGED <<settings, defaultDomainList, clearsPending>>
  /\ opCount' = opCount + 1
  /\ UNCHANGED <<capVars, capLog, invoked, consoleOut, abortedCaps, unregistered, clock, domVars, hlVars,
                 csVars, domainEnabledCache, hlStyle, fetchCfg, lastSettingsMsg, netVars, tipVars,
                 sharedList>>

\* removeDomain(domain) up to `await this.saveSettings()`: the filtered copy
removeDomain(domain) ==
  /\ opCount < MaxHandlerOps
  /\ settings' = [settings EXCEPT !.domainList = SelectSeq(@, LAMBDA d : d # domain)]
  /\ sharedList' = FALSE
  /\ clearsPending' = clearsPending + 1
  /\ opCount' = opCount + 1
  /\ UNCHANGED <<capVars, capLog, invoked, consoleOut, abortedCaps, unregistered, clock, domVars, hlVars,
                 csVars, domainEnabledCache, hlStyle, fetchCfg, lastSettingsMsg, netVars, tipVars,
                 defaultDomainList>>

\* the save of an addDomain / removeDomain completes: this.domainEnabledCache.clear()
saveSettingsDone ==
  /\ clearsPending > 0
  /\ domainEnabledCache' = EmptyMap
  /\ clearsPending' = clearsPending - 1
  /\ UNCHANGED <<capVars, obsVars, clock, domVars, hlVars, csVars, settings, hlStyle, fetchCfg,
                 lastSettingsMsg, netVars, tipVars, defaultDomainList, sharedList>>

\* a caller asks isEnabledForDomain(domain) for a domain not cached yet
lookupDomain(domain) ==
  /\ domain \notin DOMAIN domainEnabledCache
  /\ domainEnabledCache' = cacheAfterLookup(settings, domainEnabledCache, domain)
  /\ UNCHANGED <<capVars, obsVars, clock, domVars, hlVars, csVars, settings, hlStyle, fetchCfg,
                 lastSettingsMsg, netVars, tipVars, mgrVars>>

InitManager ==
  /\ InitObserved /\ InitPage
  /\ InitModules(DefaultSettings)
  /\ domainEnabledCache = EmptyMap
  /\ errorHandlers = << >>
  /\ elStyle = [e \in Elements |-> UnsetStyle]

NextManager ==
  \/ \E u \in ManagerUpdates : updateSettings(u)
  \/ resetSettings
  \/ \E d \in ListedDomains : addDomain(d)
  \/ \E d \in ListedDomains : removeDomain(d)
  \/ saveSettingsDone
  \/ \E d \in ManagerDomains : lookupDomain(d)

SpecManager == InitManager /\ [][NextManager]_vars

\* --------------------------------------- the source mapper's fetches on their own
InitFetch ==
  /\ InitObserved /\ InitPage
  /\ \E r \in 0..MaxRetries : InitModules([DefaultSettings EXCEPT !.sourcemapRetries = r])
  /\ domainEnabledCache = EmptyMap
  /\ errorHandlers = << >>
  /\ elStyle = [e \in Elements |-> UnsetStyle]

NextFetch ==
  \/ \E url \in FetchUrls : fetchWithRetry(url)
  \/ \E url \in FetchUrls : attemptFails(url)
  \/ \E url \in FetchUrls : backoffElapsed(url)
  \/ \E url \in FetchUrls : attemptSucceeds(url)

SpecFetch == InitFetch /\ [][NextFetch]_vars

\* ----------------------------------------- the highlighter used on its own
InitHL ==
  /\ InitObserved /\ InitPage
  /\ InitModules(DefaultSettings)
  /\ domainEnabledCache = EmptyMap
  /\ errorHandlers = << >>
  /\ elStyle \in [Elements -> {UnsetStyle, [UnsetStyle EXCEPT !["border"] = "set"]}]

NextHL ==
  \/ \E e \in Elements, error \in ErrorRefs, rnd \in RandVals : attach(e, error, rnd)
  \/ \E e \in Elements, id \in KnownIds \cup {NoId} : detach(e, id)
  \/ \E e \in Elements : PageRemove(e)
  \/ \E e \in Elements, p \in StyleProps, v \in StyleVals : PageSetStyle(e, p, v)
  \/ Tick

SpecHL == InitHL /\ [][NextHL]_vars

\* ------------------------------------------------ the highlighter's tooltip
\* showTooltip(element, event): nothing without an entry for the element; clears the timer
\* STORED in tooltipTimeout (and no other), then adds 'visible'
showTooltip(S, e) ==
  IF ~MapHas(highlights, e) THEN S
  ELSE [visible |-> TRUE,
        timeout |-> 0,
        timers |-> IF S.timeout # 0 THEN S.timers \ {S.timeout} ELSE S.timers,
        count |-> S.count,
        shown |-> S.count]

\* hideTooltip(): a new 200 ms timer whose id overwrites tooltipTimeout; a timer already
\* stored there is not cleared
hideTooltip(S) ==
  [S EXCEPT !.timers = @ \cup {S.count + 1}, !.timeout = S.count + 1, !.count = @ + 1]

TipState ==
  [visible |-> tooltipVisible, timeout |-> tooltipTimeout, timers |-> timers,
   count |-> timerCount, shown |-> shownAt]

SetTip(S) ==
  /\ tooltipVisible' = S.visible /\ tooltipTimeout' = S.timeout /\ timers' = S.timers
  /\ timerCount' = S.count /\ shownAt' = S.shown

\* the document's mouseover listener, the pointer entering element e (elements have no
\* highlighted ancestors here): show for an element with the marker class, else a hide request
mouseover(e) ==
  /\ timerCount < MaxTimers
  /\ SetTip(IF ClsHighlight \in classList[e] THEN showTooltip(TipState, e) ELSE hideTooltip(TipState))
  /\ UNCHANGED <<capVars, obsVars, clock, domVars, hlVars, csVars, setVars, netVars, mgrVars>>

\* the document's mouseout listener, the pointer leaving element e for outside of it
mouseout(e) ==
  /\ timerCount < MaxTimers
  /\ ClsHighlight \in classList[e]
  /\ SetTip(hideTooltip(TipState))
  /\ UNCHANGED <<capVars, obsVars, clock, domVars, hlVars, csVars, setVars, netVars, mgrVars>>

\* the callback of a hide timer runs; the timers all have the same delay, so the oldest
\* pending one is the one that fires
tooltipTimerFires(id) ==
  /\ id \in timers /\ \A j \in timers : id <= j
  /\ tooltipVisible' = FALSE /\ tooltipTimeout' = 0
  /\ timers' = timers \ {id}
  /\ UNCHANGED <<timerCount, shownAt>>
  /\ UNCHANGED <<capVars, obsVars, clock, domVars, hlVars, csVars, setVars, netVars, mgrVars>>

TimerIds == 1..MaxTimers

NextTooltip ==
  \/ \E e \in Elements, error \in ErrorRefs, rnd \in RandVals : attach(e, error, rnd)
  \/ \E e \in Elements, id \in KnownIds \cup {NoId} : detach(e, id)
  \/ \E e \in Elements : mouseover(e)
  \/ \E e \in Elements : mouseout(e)
  \/ \E id \in TimerIds : tooltipTimerFires(id)

SpecTooltip == InitHL /\ [][NextTooltip]_vars

\* ============================================================ properties
\* the captures logged by the step, and the consumer calls made for capture k
NewCaptures == (Len(capLog) + 1)..Len(capLog')
InvokedFor(inv, k) == SelectSeq(inv, LAMBDA x : x[1] = k)
ConsumersOf(inv, k) == [i \in 1..Len(InvokedFor(inv, k)) |-> InvokedFor(inv, k)[i][2]]
TimesInvoked(inv, k, h) == Cardinality({i \in 1..Len(inv) : inv[i] = <<k, h>>})

\* a pattern is a regular expression when it compiles, a literal substring otherwise
MessageMatches(p, m) == IF IsValidRegex(p) THEN RegexTest(p, m) ELSE Includes(m, p)
MatchesSome(pats, m) == \E i \in 1..Len(pats) : MessageMatches(pats[i], m)

\* captures whose handleError is still suspended on a map lookup
PendingCaps == {t.err.cap : t \in tasks}
Accepted(k) == capLog[k].accepted
\* the accepted captures of one raw signal, by message and raw location
CapturesOf(sig) ==
  {k \in 1..Len(capLog) : Accepted(k) /\ capLog[k].err.message = sig.message /\ capLog[k].err.loc = sig.loc}
RecordsOf(sig) ==
  {i \in 1..Len(capturedErrors) :
     capturedErrors[i].message = sig.message /\ capturedErrors[i].loc = sig.loc}
FirstOf(caps) == CHOOSE k \in caps : \A j \in caps : k <= j
PosOf(list, k) == IF \E i \in 1..Len(list) : list[i].cap = k
                    THEN CHOOSE i \in 1..Len(list) : list[i].cap = k ELSE 0

\* the n captures of sig are all resolved and left one record counting n
OneRecordCounting(sig) ==
  /\ Cardinality(RecordsOf(sig)) = 1
  /\ \A i \in RecordsOf(sig) : capturedErrors[i].count = Cardinality(CapturesOf(sig))

\* C1: when the same accepted signal (same message, file, line, column) is captured
\* n >= 2 times, under any interleaving of the map resolutions, the error list holds
\* exactly one record for it with count n, and that record's first-seen timestamp
\* is the one of the first capture.
C1_DedupIdempotence ==
  \A sig \in RawSignals :
    (Cardinality(CapturesOf(sig)) >= 2 /\ CapturesOf(sig) \cap PendingCaps = {})
    => /\ OneRecordCounting(sig)
       /\ \A i \in RecordsOf(sig) :
            capturedErrors[i].timestamp = capLog[FirstOf(CapturesOf(sig))].err.timestamp

\* C2: three accepted signals captured in the order a, b, c with no dedup collision
\* are returned by getErrors in that order, whichever map resolution ends first.
C2_ArrivalOrder ==
  \A a \in 1..Len(capLog), b \in 1..Len(capLog), c \in 1..Len(capLog) :
    (/\ a < b /\ b < c
     /\ Accepted(a) /\ Accepted(b) /\ Accepted(c)
     /\ ~areSimilarErrors(capLog[a].err, capLog[b].err)
     /\ ~areSimilarErrors(capLog[a].err, capLog[c].err)
     /\ ~areSimilarErrors(capLog[b].err, capLog[c].err)
     /\ PosOf(response, a) # 0 /\ PosOf(response, b) # 0 /\ PosOf(response, c) # 0)
    => (PosOf(response, a) < PosOf(response, b) /\ PosOf(response, b) < PosOf(response, c))

SuppressedExactlyWhen ==
  \A k \in NewCaptures :
    LET c == capLog'[k]
    IN /\ ~c.accepted <=> (~isEnabled \/ MatchesSome(ignoredPatterns, c.err.message))
       /\ ~c.accepted => /\ InvokedFor(invoked', k) = << >>
                         /\ ~Contains(sent', k)
                         /\ \A i \in 1..Len(capturedErrors') : capturedErrors'[i].cap # k
       /\ (c.accepted /\ errorHandlers # << >>) => InvokedFor(invoked', k) # << >>

SuppressedChangesNothing ==
  (NewCaptures # {} /\ \A k \in NewCaptures : ~capLog'[k].accepted)
  => (invoked' = invoked /\ capturedErrors' = capturedErrors /\ sent' = sent)

\* C3: a raw signal is suppressed (no consumer is notified, no record is created or
\* incremented) exactly when capture is disabled or its message matches at least one
\* configured ignore pattern; otherwise it is accepted and consumers are notified.
C3_SuppressedIffDisabledOrIgnored == [][SuppressedExactlyWhen /\ SuppressedChangesNothing]_vars

\* with the pattern ^E\d$ set, "E4" was suppressed and "Ea" went to the consumer
C3_Witness ==
  /\ opCount = 2 /\ isEnabled /\ ignoredPatterns = <<PatRegex>>
  /\ errorHandlers = <<"handleError">>
  /\ Len(capLog) = 2
  /\ capLog[1].err.message = MsgNum /\ ~capLog[1].accepted
  /\ capLog[2].err.message = MsgAbc /\ capLog[2].accepted
  /\ invoked = << <<2, "handleError">> >>
  /\ Len(capturedErrors) = 1 /\ capturedErrors[1].cap = 2

\* the last settings update delivered to the page carried globalEnabled = b
LastUpdateSet(b) ==
  /\ lastSettingsMsg # << >>
  /\ "globalEnabled" \in DOMAIN lastSettingsMsg[1]
  /\ lastSettingsMsg[1].globalEnabled = b

\* C4: after a settings update that turns capture off is delivered to the page, every
\* signal captured from then on is suppressed; after one that turns it on, every
\* signal captured from then on that no ignore pattern matches is accepted.
C4_EnablementImmediate ==
  [][\A k \in NewCaptures :
       /\ LastUpdateSet(FALSE) => ~capLog'[k].accepted
       /\ (LastUpdateSet(TRUE) /\ ~MatchesSome(ignoredPatterns, capLog'[k].err.message))
            => capLog'[k].accepted]_vars

\* C5: on every accepted capture, each currently registered consumer is invoked
\* exactly once, within the capture, in the order the consumers were registered.
C5_EachConsumerOnceInOrder ==
  [][\A k \in NewCaptures : capLog'[k].accepted => ConsumersOf(invoked', k) = errorHandlers]_vars

\* C6: if a registered consumer throws while being notified of an accepted capture,
\* every other registered consumer, before and after it, is still notified of it.
C6_FailureIsolation ==
  [][\A sig \in CapturerSignals, thr \in SUBSET MockConsumers, thrN \in SUBSET MockConsumers :
       (/\ Deliver(sig, thr, thrN, NoRnds)
        /\ thr # {} /\ thr \subseteq SeqToSet(errorHandlers)
        /\ capLog'[Len(capLog) + 1].accepted)
       => \A h \in SeqToSet(errorHandlers) : Contains(invoked', <<Len(capLog) + 1, h>>)]_vars

\* C7: after unregisterErrorHandler(h), h is never invoked for any later capture,
\* while all other registered consumers go on being invoked once per accepted capture.
C7_UnregisteredNeverInvoked ==
  [][\A k \in NewCaptures :
       (capLog'[k].accepted /\ unregistered # {})
       => /\ \A h \in unregistered : TimesInvoked(invoked', k, h) = 0
          /\ \A h \in SeqToSet(errorHandlers) : TimesInvoked(invoked', k, h) = 1]_vars

TimesSent(k) == Cardinality({i \in 1..Len(sent) : sent[i] = k})

\* a step that only increments the count of an existing record
DedupIncrement ==
  /\ Len(capturedErrors') = Len(capturedErrors)
  /\ \E i \in 1..Len(capturedErrors) : capturedErrors'[i].count = capturedErrors[i].count + 1

\* C8: exactly one 'errorDetected' message is sent for every accepted capture, whether
\* the capture creates a record or increments the count of an existing one; a
\* dedup-increment triggers no highlight work.
C8_OneNotificationPerCapture ==
  /\ [](\A k \in 1..Len(capLog) : (Accepted(k) /\ k \notin PendingCaps) => TimesSent(k) = 1)
  /\ [][DedupIncrement => (highlights' = highlights /\ classList' = classList /\ dataset' = dataset)]_vars

AssocCount(e) == IF MapHas(highlights, e) THEN Len(MapGet(highlights, e).errors) ELSE 0
EntryCount(e) == Cardinality({i \in 1..Len(highlights) : highlights[i].el = e})
MultipleState(e) == ClsMultiple \in classList[e]
SingleState(e) == ClsHighlight \in classList[e] /\ ClsMultiple \notin classList[e]
Unhighlighted(e) == classList[e] = {} /\ dataset[e] = NoData
HoldsOnly(e, id) == \A i \in 1..AssocCount(e) : MapGet(highlights, e).errors[i].id = id
HoldsOnce(e, id) == Cardinality({i \in 1..AssocCount(e) : MapGet(highlights, e).errors[i].id = id}) = 1

\* the markers of every element agree with the number of associations of its entry
MarkersAgree ==
  \A e \in Elements :
    /\ MultipleState(e) <=> AssocCount(e) >= 2
    /\ SingleState(e) <=> AssocCount(e) = 1
    /\ (Unhighlighted(e) /\ ~MapHas(highlights, e)) <=> AssocCount(e) = 0

\* highlightElement with a second, distinct error on a single-state element
AttachSecondGivesMultiple ==
  \A e \in Elements, error \in ErrorRefs, rnd \in RandVals :
    (/\ attach(e, error, rnd)
     /\ inDoc[e] /\ AssocCount(e) = 1
     /\ MapGet(highlights, e).errors[1].error # error)
    => MultipleState(e)'

\* removeHighlight of one of the two associations of a multiple-state element
DetachOneGivesSingle ==
  \A e \in Elements, id \in KnownIds :
    (detach(e, id) /\ AssocCount(e) = 2 /\ HoldsOnce(e, id)) => SingleState(e)'

\* C9: after any sequence of attach/detach operations an element carries the
\* multiple-errors marker exactly when its entry holds two or more associations,
\* is in single-state exactly when it holds one, and is unhighlighted with no entry
\* when it holds none; attaching a second distinct error moves single to multiple
\* and detaching one of two moves multiple back to single.
C9_Lifecycle == []MarkersAgree /\ [][AttachSecondGivesMultiple /\ DetachOneGivesSingle]_vars

\* removeHighlight that takes away everything the element's entry holds
LastRemovalRestores ==
  \A e \in Elements, id \in KnownIds \cup {NoId} :
    (detach(e, id) /\ MapHas(highlights, e) /\ (id = NoId \/ HoldsOnly(e, id)))
    => /\ ~MapHas(highlights', e)
       /\ \A p \in StyleProps : elStyle'[e][p] = firstStyle[e][p]

\* C10: removing the last association of an element (by id, or with the id omitted)
\* removes the element's entry and leaves each saved style property equal to the
\* value it had when the entry was created, unset values included; an element never
\* has more than one entry.
C10_LastRemovalRestoresSnapshot ==
  [](\A e \in Elements : EntryCount(e) <= 1) /\ [][LastRemovalRestores]_vars

\* an element highlighted while its border was set and other properties were not,
\* whose only association has been removed again
C10_Witness ==
  /\ attachCount = 1 /\ pageOps = 0 /\ highlights = << >>
  /\ firstStyle["e1"]["border"] = "set" /\ firstStyle["e1"]["zIndex"] = ""
  /\ elStyle["e1"] = firstStyle["e1"]

\* highlightElement called on an element that is not in the document
AttachDetachedReturnsNull ==
  \A e \in Elements, error \in ErrorRefs, id \in KnownIds :
    ~inDoc[e] => highlightElement(HLState, inDoc, e, error, id) = [S |-> HLState, ret |-> NoId]

AttachDetachedChangesNothing ==
  \A e \in Elements :
    ~inDoc[e] =>
      \A error \in ErrorRefs, rnd \in RandVals :
        attach(e, error, rnd)
        => (highlights' = highlights /\ classList' = classList /\ dataset' = dataset /\ elStyle' = elStyle)

\* C11: attach on an element that is not in the document is a no-op: it returns no
\* highlight id, creates or changes no entry, and applies no styling or marker to
\* the element.
C11_AttachDetachedIsNoOp == []AttachDetachedReturnsNull /\ [][AttachDetachedChangesNothing]_vars

\* e1 was removed from the document and highlightElement was then called on it: the
\* one call made created no entry (an entry would have recorded the border every
\* element started with) and left e1 without markers
C11_Witness ==
  /\ attachCount = 1 /\ pageOps = 1 /\ ~inDoc["e1"] /\ inDoc["e2"]
  /\ \A e \in Elements : elStyle[e]["border"] = "set" /\ firstStyle[e] = UnsetStyle
  /\ highlights = << >>
  /\ \A e \in Elements : Unhighlighted(e)

\* the element's entry already links the error
Linked(e, error) ==
  MapHas(highlights, e) /\ \E i \in 1..AssocCount(e) : MapGet(highlights, e).errors[i].error = error

\* highlightElement with an error the element's entry already links
AttachLinkedAddsNothing ==
  \A e \in Elements, error \in ErrorRefs :
    (inDoc[e] /\ Linked(e, error)) =>
      \A rnd \in RandVals :
        attach(e, error, rnd)
        => /\ AssocCount(e)' = AssocCount(e)
           /\ MultipleState(e)' <=> MultipleState(e)
           /\ SingleState(e)' <=> SingleState(e)

\* C12: attach is idempotent per (element, errorRecord): attaching an errorRecord
\* that is already linked to the element's entry adds no second association, so the
\* entry's association count and single/multiple state are unchanged.
C12_AttachIdempotent == [][AttachLinkedAddsNothing]_vars

\* the elements the highlighter tracks
Tracked == {e \in Elements : MapHas(highlights, e)}

\* clearErrors -> removeAllHighlightsFromPage: what it leaves of every tracked element
DetachAllRestoresEvery ==
  clearErrors
  => /\ highlights' = << >>
     /\ \A e \in Tracked :
          /\ classList'[e] = {}
          /\ dataset'[e] = NoData
          /\ \A p \in StyleProps : elStyle'[e][p] = MapGet(highlights, e).originalStyles[p]

\* C13: detachAll restores every tracked element to its original style (removing its
\* highlight markers) and leaves the highlight-entry table empty, for every tracked
\* element whether or not it is still attached to the document at that moment.
C13_DetachAllRestoresEvery == [][DetachAllRestoresEvery]_vars

\* the captures that own a highlight association
HighlightedCaps ==
  UNION {{highlights[i].errors[j].error : j \in 1..Len(highlights[i].errors)} : i \in 1..Len(highlights)}

\* C14: after an explicit reset (clear-all), the results of map fetches that were
\* pending at the time of the reset are discarded when they arrive: no record and no
\* highlight for an error captured before the reset appears after the reset, and
\* highlight state stays cleared until a new signal is captured.
C14_ResetDiscardsPending ==
  resetAt >= 0
  => /\ \A i \in 1..Len(capturedErrors) : capturedErrors[i].cap > resetAt
     /\ \A k \in HighlightedCaps : k > resetAt
     /\ Len(capLog) = resetAt => (highlights = << >> /\ capturedErrors = << >>)

\* the raw stack frames of capture k
RawFrames(k) == capLog[k].err.stack.frames

\* a handleError whose lookup came back in this step with nothing usable
FailedLookups ==
  {t \in tasks : /\ t.phase = "fetch" /\ t \notin tasks'
                 /\ sourceMapCache'[t.err.stack.frames[t.idx].file] = Null}

\* the failed lookup leaves the frame as it was and handleError runs on
FailedLookupKeepsFrame ==
  \A t \in FailedLookups :
    LET k == t.err.cap
        raw == t.err.stack.frames[t.idx]
    IN /\ (\E t2 \in tasks' : t2.err.cap = k) \/ Contains(sent', k)
       /\ \A t2 \in tasks' : t2.err.cap = k => t2.out[t.idx] = raw
       /\ \A i \in 1..Len(capturedErrors') :
            capturedErrors'[i].cap = k => capturedErrors'[i].stack.frames[t.idx] = raw

\* a record whose first frame was left as it was displays the raw location
UnresolvedShowsRawLocation ==
  \A i \in 1..Len(capturedErrors) :
    LET r == capturedErrors[i]
    IN (r.stack.present /\ Len(r.stack.frames) >= 1 /\ r.stack.frames[1] = RawFrames(r.cap)[1])
       => (r.mapped = r.loc.filename /\ r.loc = capLog[r.cap].err.loc)

Resolved(frame) == [frame EXCEPT !.file = OriginalSource(frame.file)]

\* the lines processError has processed so far for capture k
Processed(tsk, list, k) ==
  IF \E t \in tsk : t.err.cap = k THEN (CHOOSE t \in tsk : t.err.cap = k).out
  ELSE IF \E i \in 1..Len(list) : list[i].cap = k
    THEN list[CHOOSE i \in 1..Len(list) : list[i].cap = k].stack.frames
  ELSE << >>

\* every processed line stands at the position of the raw line it came from
InPlace(frames, k) ==
  \A j \in 1..Len(frames) : j <= Len(RawFrames(k)) /\ frames[j] \in {RawFrames(k)[j], Resolved(RawFrames(k)[j])}

ShapeKept ==
  /\ \A i \in 1..Len(capturedErrors) :
       LET r == capturedErrors[i]
       IN /\ r.stack.present = capLog[r.cap].err.stack.present
          /\ Len(r.stack.frames) = Len(RawFrames(r.cap))
          /\ InPlace(r.stack.frames, r.cap)
  /\ \A t \in tasks : Len(t.out) = t.idx - 1 /\ InPlace(t.out, t.err.cap)

\* the lines processed in this step whose file has no map are left as they were
UnresolvedKeptAsIs ==
  \A k \in 1..Len(capLog') :
    LET old == Processed(tasks, capturedErrors, k)
        new == Processed(tasks', capturedErrors', k)
    IN \A j \in (Len(old) + 1)..Len(new) :
         LET raw == capLog'[k].err.stack.frames[j]
         IN (raw.file \in DOMAIN sourceMapCache' /\ sourceMapCache'[raw.file] = Null) => new[j] = raw

\* C18: whole-stack resolution preserves the stack's shape: the resolved stack has the
\* same number of lines in the same order as the input stack, and every frame that
\* could not be resolved appears unmodified at its original position.
C18_StackShapePreserved == []ShapeKept /\ [][UnresolvedKeptAsIs]_vars

\* the three-frame error with a map for a.js and none for b.js: the first and third
\* lines are rewritten, the second stands unmodified between them
C18_Witness ==
  \E i \in 1..Len(capturedErrors) :
    /\ capturedErrors[i].message = MsgDeep
    /\ capturedErrors[i].stack.frames =
         <<Resolved(SigDeep.stack.frames[1]), SigDeep.stack.frames[2], Resolved(SigDeep.stack.frames[3])>>
    /\ capturedErrors[i].mapped = "a.ts"

\* the attempts and delays of every fetchWithRetry call, against the configured count
AttemptsWithinBound ==
  \A u \in FetchUrls :
    LET f == fetchRun[u]
    IN f.status # "none"
       => /\ f.attempts <= f.configured + 1
          /\ f.waits = f.attempts - 1
          /\ f.status = "thrown" => (f.attempts = f.configured + 1 /\ f.waits = f.configured)

\* a call that has returned or given up makes no further attempt
EndedStaysEnded ==
  \A u \in FetchUrls : fetchRun[u].status \in {"returned", "thrown"} => fetchRun'[u] = fetchRun[u]

\* C16: for every configured retry count r >= 0, a fetch that fails or times out on
\* every attempt is attempted exactly r + 1 times, with the fixed backoff delay between
\* consecutive attempts, and then gives up; the first successful attempt ends the
\* sequence with no further attempts.
C16_RetryBound == []AttemptsWithinBound /\ [][EndedStaysEnded]_vars

\* the file a suspended processError is looking up
FileOf(t) == t.err.stack.frames[t.idx].file

\* the lookups whose network fetch starts in this step
StartedLookups ==
  {t2 \in tasks' : /\ t2.phase = "fetch"
                   /\ ~\E t \in tasks : t.phase = "fetch" /\ t.err.cap = t2.err.cap /\ t.idx = t2.idx}

\* a cached file is never fetched again
NoFetchOnceCached == \A t2 \in StartedLookups : FileOf(t2) \notin DOMAIN sourceMapCache'

\* an entry is never dropped, and only a lookup that was already under way when the
\* entry was written replaces its value; a settings update leaves the cache alone
EntriesStay ==
  /\ \A f \in DOMAIN sourceMapCache :
       /\ f \in DOMAIN sourceMapCache'
       /\ sourceMapCache'[f] # sourceMapCache[f]
            => \E t \in tasks : t.phase = "fetch" /\ FileOf(t) = f /\ t \notin tasks'
  /\ lastSettingsMsg' # lastSettingsMsg => sourceMapCache' = sourceMapCache

\* what the cache holds for a file: a parsed map or the unavailable sentinel
OneEntryPerFile == \A f \in DOMAIN sourceMapCache : sourceMapCache[f] \in {"mapFull", Null}

\* C17: once a lookup for a generated-file URL has completed, the cache holds exactly
\* one entry for that URL (a parsed map or the unavailable sentinel) and every later
\* resolve for that URL, from any error, performs no network fetch; the entry stays
\* until an explicit cache clear, including across settings updates.
C17_NegativeCaching == []OneEntryPerFile /\ [][NoFetchOnceCached /\ EntriesStay]_vars

\* one capture of the three-frame error, a settings update, and both of its files
\* cached as unavailable after two failed fetches: the third line, in a.js again, was
\* resolved from the cache
C17_Witness ==
  /\ Len(capLog) = 1 /\ tasks = {} /\ lastSettingsMsg # << >>
  /\ sourceMapCache = [f \in {"a.js", "b.js"} |-> Null]
  /\ consoleOut = <<MsgFetchFailed, MsgFetchFailed>>
  /\ Len(capturedErrors) = 1
  /\ capturedErrors[1].stack.frames = SigDeep.stack.frames

\* what each heuristic finds for an error, as sets of attached elements
AttachedIn(lists) == {e \in Elements : inDoc[e] /\ \E i \in 1..Len(lists) : Contains(lists[i], e)}
TargetMatch(error) == {e \in Elements : e = error.eventTarget /\ inDoc[e]}
ListenerMatches(error) ==
  {e \in Elements : /\ inDoc[e]
                    /\ \E i \in 1..Len(registry) :
                         /\ registry[i].listener \in extractFunctionNamesFromStack(error.stack)
                         /\ Contains(registry[i].elements, e)}
SelectorMatches(error) == AttachedIn(error.stack.sels)

\* the priority of the first heuristic that finds e
Priority(error, e) ==
  IF e \in TargetMatch(error) THEN 1
  ELSE IF e \in ListenerMatches(error) THEN 2
  ELSE IF e \in SelectorMatches(error) THEN 3
  ELSE 4

\* the elements identified for the record a step appends to the list
Appended == IF Len(capturedErrors') > Len(capturedErrors) THEN {capturedErrors'[Len(capturedErrors')]} ELSE {}
ElementsOf(r) == [i \in 1..Len(r.associatedElements) |-> r.associatedElements[i].element]

\* C19: the Element Identifier's output is ordered by heuristic priority: the direct
\* event target (when attached) comes first, then listener-registry matches, then
\* selector-literal matches, then fallback matches, with first-discovered order inside
\* each heuristic.
C19_PriorityOrder ==
  [][\A r \in Appended :
       LET els == ElementsOf(r)
       IN \A i \in 1..Len(els), j \in 1..Len(els) :
            i < j => Priority(r, els[i]) <= Priority(r, els[j])]_vars

\* identifyElements applied to every signal in the current page
IdentifiedNow(sig) == identifyElements(NormalizeSignal(sig, 0, clock), registry, inDoc)
AttachedOnce(els) ==
  /\ \A i \in 1..Len(els) : inDoc[els[i]]
  /\ \A i \in 1..Len(els), j \in 1..Len(els) : i # j => els[i] # els[j]

\* C20: every element returned by the Element Identifier is attached to the document
\* at the moment it is returned, and no element appears more than once in the result
\* even when several heuristics find it.
C20_AttachedAndDistinct ==
  /\ [](\A sig \in IdentifySignals : AttachedOnce(IdentifiedNow(sig)))
  /\ [][\A r \in Appended : AttachedOnce(ElementsOf(r))]_vars

\* e1 is the target, is registered for onClick and is named by a selector literal, but
\* was removed before the error was identified; e2 was found by the listener registry
\* and by a selector literal and is returned once
C20_Witness ==
  /\ ~inDoc["e1"] /\ inDoc["e2"]
  /\ registry = <<[listener |-> "onClick", elements |-> <<"e2", "e1">>]>>
  /\ \E i \in 1..Len(capturedErrors) :
       /\ capturedErrors[i].message = MsgRich
       /\ ElementsOf(capturedErrors[i]) = <<"e2">>

\* what the three primary heuristics find, and what the literal heuristic finds
PrimaryMatches(error) == TargetMatch(error) \cup ListenerMatches(error) \cup SelectorMatches(error)
LiteralMatches(error) == AttachedIn(error.stack.refs)
FallbackOnlyWhenEmpty(error, els) ==
  /\ PrimaryMatches(error) # {} => SeqToSet(els) = PrimaryMatches(error)
  /\ PrimaryMatches(error) = {} => SeqToSet(els) = LiteralMatches(error)

\* C21: the fallback literal heuristic (elements named by '#id' / '.class' tokens in
\* the stack text) contributes to the result only when the target, listener and
\* selector heuristics together produced nothing; when any of them found an element
\* the result holds exactly what they found.
C21_FallbackOnlyWhenEmpty ==
  /\ [](\A sig \in IdentifySignals :
          FallbackOnlyWhenEmpty(NormalizeSignal(sig, 0, clock), IdentifiedNow(sig)))
  /\ [][\A r \in Appended : FallbackOnlyWhenEmpty(r, ElementsOf(r))]_vars

\* the error dispatched at e1 names '#e2' in its stack text: with e1 attached only e1
\* is identified although e2 is attached too
C21_Witness ==
  /\ inDoc["e1"] /\ inDoc["e2"]
  /\ \E i \in 1..Len(capturedErrors) :
       /\ capturedErrors[i].message = MsgLit
       /\ ElementsOf(capturedErrors[i]) = <<"e1">>

\* the same error once e1 has left the page: the literal heuristic finds e2
C21_WitnessFallback ==
  /\ ~inDoc["e1"] /\ inDoc["e2"]
  /\ \E i \in 1..Len(capturedErrors) :
       /\ capturedErrors[i].message = MsgLit
       /\ ElementsOf(capturedErrors[i]) = <<"e2">>

\* capture k is in the error list, as its own record or merged into the record of an
\* earlier capture of the same signal
Recorded(k) ==
  \E i \in 1..Len(capturedErrors) :
    capturedErrors[i].message = capLog[k].err.message /\ capturedErrors[i].loc = capLog[k].err.loc
EveryResolvedCaptureRecorded ==
  \A k \in 1..Len(capLog) : (Accepted(k) /\ k \notin PendingCaps) => Recorded(k)
NoElementsNoHighlight ==
  \A i \in 1..Len(capturedErrors) :
    capturedErrors[i].associatedElements = << >> => capturedErrors[i].cap \notin HighlightedCaps

\* C22: every accepted capture that matches no existing record appears as a record in
\* the error list once its handling has run, whatever the outcome of element
\* identification; when no heuristic finds an element the record is listed with no
\* associated elements and no highlight, and identification never makes the capture
\* fail.
C22_RecordedWithoutElements == [](EveryResolvedCaptureRecorded /\ NoElementsNoHighlight)

\* a map lookup of an earlier error is in flight
FetchPending == \E t \in tasks : t.phase = "fetch"
\* while it is, the capturer takes every signal the host may deliver
CaptureNotBlocked ==
  (FetchPending /\ Len(capLog) < MaxCaptures) =>
    \A sig \in RawSignals : ENABLED (\E rnds \in RndSeqs : Deliver(sig, {}, {}, rnds))
\* and hands it to the consumers in the same step, leaving the lookups in flight
CapturedWhilePending ==
  \A k \in NewCaptures :
    FetchPending =>
      /\ capLog'[k].accepted = (isEnabled /\ ~shouldIgnoreError(ignoredPatterns, capLog'[k].err.message))
      /\ capLog'[k].accepted => TimesInvoked(invoked', k, "handleError") = 1
      /\ \A t \in tasks : t.phase = "fetch" => t \in tasks'

\* C23: a map fetch in progress for one error does not block the capture of a later
\* signal: a signal arriving while an earlier error's resolution is pending is
\* normalized, filtered and delivered to the consumers without waiting for that
\* resolution.
C23_CaptureNotBlockedByFetch == []CaptureNotBlocked /\ [][CapturedWhilePending]_vars

\* two errors were captured and delivered, and the lookups of both are in flight
C23_Witness ==
  /\ Len(capLog) = 2 /\ PendingCaps = {1, 2}
  /\ invoked = <<<<1, "handleError">>, <<2, "handleError">>>>
  /\ \A t \in tasks : t.phase = "fetch"

\* accepted captures that no earlier accepted capture resembles, still being resolved
NonDuplicate(k) ==
  \A j \in 1..(k - 1) : Accepted(j) => ~areSimilarErrors(capLog[j].err, capLog[k].err)
PendingFirsts == {k \in PendingCaps : Accepted(k) /\ NonDuplicate(k)}
ListedWhilePending == \A k \in PendingFirsts : PosOf(capturedErrors, k) # 0
ReturnedWhilePending == getErrors => \A k \in PendingFirsts : PosOf(response', k) # 0

\* C24: display is not blocked on resolution: an accepted, non-duplicate record is
\* visible in the error list while its map resolution is pending, so a getErrors
\* issued before the resolution completes already returns it.
C24_ListedBeforeResolution == []ListedWhilePending /\ [][ReturnedWhilePending]_vars

\* the consumer calls of the step that threw, each of them logged with console.error
FailedNotifications(thr, thrN) ==
  {i \in (Len(invoked) + 1)..Len(invoked') :
     invoked'[i][2] \in (IF capLog'[invoked'[i][1]].depth = 1 THEN thr ELSE thrN)}
HandlerFailedTimes(n) == [i \in 1..n |-> MsgHandlerFailed]

\* the original console.error receives every call once, with the call's arguments
OriginalCalledOncePerCall ==
  /\ \A sig \in LoggedSignals, thrN \in Throwers :
       consoleError(sig, thrN, NoRnds) =>
         consoleOut' = consoleOut \o <<sig.message>>
                         \o HandlerFailedTimes(Cardinality(FailedNotifications({}, thrN)))
  /\ \A sig \in CapturerSignals, thr \in Throwers, thrN \in Throwers :
       Deliver(sig, thr, thrN, NoRnds) =>
         consoleOut' = consoleOut \o HandlerFailedTimes(Cardinality(FailedNotifications(thr, thrN)))

\* the record of a logged value has the value's own stack or a synthetic one
LoggedRecordHasStack ==
  /\ \A k \in NewCaptures : capLog'[k].err.type = "console" => capLog'[k].err.stack.present
  /\ \A sig \in LoggedSignals, thrN \in Throwers :
       (consoleError(sig, thrN, NoRnds) /\ captureConsole) =>
         capLog'[Len(capLog) + 1].err.stack = (IF sig.isError THEN sig.stack ELSE SyntheticStack)

\* C25: logging pass-through: with logged-error capture installed, every call to the
\* logging channel invokes the original logging function exactly once with the same
\* arguments, whether capture is enabled or disabled and whether or not the message is
\* ignored; a logged-kind record always carries a stack, synthetic when the logged
\* value is not an error object.
C25_LoggingPassThrough == [][OriginalCalledOncePerCall /\ LoggedRecordHasStack]_vars

\* with the override installed and capture disabled, the page logged a string: the
\* original received it and the capture was suppressed
C25_Witness ==
  /\ captureConsole /\ ~isEnabled
  /\ consoleOut = <<MsgNum>>
  /\ Len(capLog) = 1 /\ ~capLog[1].accepted /\ capLog[1].err.type = "console"

\* with the override installed, a logged string that an ignore pattern matches
C25_WitnessIgnored ==
  /\ captureConsole /\ isEnabled /\ ignoredPatterns # << >>
  /\ consoleOut = <<MsgNum>>
  /\ Len(capLog) = 1 /\ ~capLog[1].accepted /\ capLog[1].err.stack = SyntheticStack

\* the first frame of record r was rewritten from a usable map
FirstFrameResolved(r) ==
  /\ r.stack.present /\ Len(r.stack.frames) >= 1
  /\ r.stack.frames[1] = Resolved(RawFrames(r.cap)[1])

\* C26: a record carries a remapped location only if the resolution of its first
\* stack frame succeeded; when the lookup failed or was unavailable the record has no
\* remapped file, line or column.
C26_RemappedOnlyIfResolved ==
  \A i \in 1..Len(capturedErrors) :
    capturedErrors[i].mapped # Null => FirstFrameResolved(capturedErrors[i])

\* the canonical record of a raw signal; a runtime signal without a message gets the
\* placeholder message
NormalizedFrom(sig, err) ==
  /\ err.type = sig.type
  /\ err.count = 1
  /\ err.message = (IF sig.message = << >> THEN MsgUnknown ELSE sig.message)
  /\ err.loc = sig.loc
  /\ err.associatedElements = << >>

\* C27: normalization: with capture enabled and no ignore patterns, each accepted raw
\* signal yields exactly one canonical record whose kind is that of its signal
\* (runtime for an uncaught exception, promise for an unhandled rejection), whose
\* count is 1, and whose message and raw location (file, line, column) are those
\* carried by the signal.
C27_Normalization ==
  [][\A sig \in ConstructedSignals :
       (Deliver(sig, {}, {}, NoRnds) /\ isEnabled /\ ignoredPatterns = << >>) =>
         LET k == Len(capLog) + 1
         IN /\ Len(capLog') = k
            /\ capLog'[k].accepted
            /\ NormalizedFrom(sig, capLog'[k].err)
            /\ \A h \in SeqToSet(errorHandlers) : TimesInvoked(invoked', k, h) = 1]_vars

\* the runtime error at a.js:10:3 and the rejection with a non-Error reason were each
\* handed once to the registered consumer, as records of their kind and location
C27_Witness ==
  /\ errorHandlers = <<"h1">> /\ Len(capLog) = 2
  /\ capLog[1].err.type = "runtime" /\ capLog[1].err.message = MsgNum /\ capLog[1].err.loc = LocA
  /\ capLog[2].err.type = "promise" /\ capLog[2].err.message = MsgParen /\ capLog[2].err.loc = NoLoc
  /\ invoked = <<<<1, "h1">>, <<2, "h1">>>>

\* what the settings given to the constructor ask for
ConfiguredEnabled == settings.globalEnabled
ConfiguredPatterns == settings.ignoredPatterns
StartsAsConfigured == isEnabled = ConfiguredEnabled /\ ignoredPatterns = ConfiguredPatterns
FiltersAsConfigured ==
  \A k \in NewCaptures :
    capLog'[k].accepted =
      (ConfiguredEnabled /\ ~MatchesSome(ConfiguredPatterns, capLog'[k].err.message))

\* C28: a capturer constructed with a settings object starts with enablement equal to
\* the settings' globalEnabled flag and ignore patterns equal to the settings'
\* ignoredPatterns, for every value of those settings.
C28_ConstructedAsConfigured == []StartsAsConfigured /\ [][FiltersAsConfigured]_vars

\* the associations of element e, before and after the step
AssocsOf(hl, e) == IF MapHas(hl, e) THEN MapGet(hl, e).errors ELSE << >>
Owners(errorId) == {i \in 1..Len(capturedErrors) : OwnsId(capturedErrors[i], errorId)}

\* the step removed record i, its associations and nothing else
RemovedOnly(i) ==
  /\ capturedErrors' = RemoveAt(capturedErrors, i)
  /\ \A e \in Elements :
       /\ AssocsOf(highlights', e) =
            SelectSeq(AssocsOf(highlights, e), LAMBDA a : a.error # capturedErrors[i].cap)
       /\ AssocsOf(highlights', e) = << >> =>
            /\ ~MapHas(highlights', e)
            /\ classList'[e] = {} /\ dataset'[e] = NoData
            /\ elStyle'[e] = firstStyle[e]
       /\ AssocsOf(highlights', e) # << >> =>
            /\ dataset'[e] = IdsOf(AssocsOf(highlights', e))
            /\ elStyle'[e] = elStyle[e]

ClearOneChangesNothing ==
  /\ capturedErrors' = capturedErrors
  /\ highlights' = highlights /\ classList' = classList
  /\ dataset' = dataset /\ elStyle' = elStyle

\* the step removed one of the records that own the id
ClearOneRemovesAnOwner ==
  \A errorId \in KnownIds :
    clearError(errorId) =>
      IF Owners(errorId) = {} THEN ClearOneChangesNothing
      ELSE \E i \in Owners(errorId) : RemovedOnly(i)

\* the step removed the record that owns the id, which no other record owns
ClearOneRemovesOwner ==
  \A errorId \in KnownIds :
    clearError(errorId) =>
      IF Owners(errorId) = {} THEN ClearOneChangesNothing
      ELSE \E i \in Owners(errorId) : Owners(errorId) = {i} /\ RemovedOnly(i)

\* C29: clear-one(highlightId) removes exactly the record that owns that highlight
\* id and removes every association of that record from every element (restoring
\* elements left with none); all other records and their associations are unchanged;
\* an unknown id changes nothing.
C29_ClearOne == [][ClearOneRemovesOwner]_vars

\* the elements that have an entry in the highlight table and carry the marker class
HighlightedElements == {e \in Elements : MapHas(highlights, e) /\ ClsHighlight \in classList[e]}

RestyleKeepsAssociations ==
  \A msg \in SettingsMsgs :
    settingsUpdated(msg) =>
      /\ hlStyle' = updateStyle(hlStyle, msg)
      /\ highlights' = highlights
      /\ capturedErrors' = capturedErrors
      /\ \A e \in HighlightedElements :
           /\ MapHas(highlights', e)
           /\ classList'[e] = classList[e] /\ dataset'[e] = dataset[e]

\* C30: a style reconfiguration (updateStyle) leaves the highlight-entry table and the
\* error list unchanged, and every currently highlighted element stays highlighted.
C30_RestyleKeepsAssociations == [][RestyleKeepsAssociations]_vars

\* the colour was changed while e1 was highlighted for a listed record
C30_Witness ==
  /\ lastSettingsMsg = <<CustomSettings>>
  /\ hlStyle.color = <<"#00ff00">>
  /\ "e1" \in HighlightedElements
  /\ \E i \in 1..Len(capturedErrors) :
       \E j \in 1..Len(capturedErrors[i].associatedElements) :
         capturedErrors[i].associatedElements[j].element = "e1"

\* the captures made of the source mapper's own log line for a failed lookup
LookupLogCaptures == {k \in 1..Len(capLog) : capLog[k].err.message = MsgFetchFailed}

\* C31: a resolution-unavailable outcome is never surfaced as a user-facing failure:
\* the pipeline's own local logging of a failed map lookup never creates an
\* ErrorRecord and never produces an 'error detected' notification, in every
\* configuration including logged-error capture enabled.
C31_LookupFailureNotSurfaced ==
  /\ \A k \in LookupLogCaptures : ~capLog[k].accepted /\ ~Contains(sent, k)
  /\ \A i \in 1..Len(capturedErrors) : capturedErrors[i].message # MsgFetchFailed

\* the capture that a signal of the host triggers, as opposed to the captures made of
\* the capturer's own log lines while it is notified
Triggering(k) == capLog'[k].depth = 1 /\ capLog'[k].accepted
NotificationCompletes ==
  \A k \in NewCaptures :
    Triggering(k) =>
      /\ ConsumersOf(invoked', k) = errorHandlers
      /\ k \notin abortedCaps'
      /\ NewCaptures = {k}

\* C32: a throwing consumer does not abort the triggering capture: in every
\* configuration (including logged-error capture enabled), notification of an
\* accepted capture terminates after each registered consumer has been invoked once,
\* with the failure logged and no further capture triggered by that logging.
C32_ThrowingConsumerIsolated == [][NotificationCompletes]_vars

\* the same with the console.error override not installed
C32_WithoutOverride == [][~captureConsole => NotificationCompletes]_vars

\* C33: once the tooltip is shown it stays visible until a hide requested after that show
\* has its delay elapse: a step that takes 'visible' away is the firing of a timer created
\* after the last show, however many hide requests came before the show.
HiddenByStep == tooltipVisible /\ ~tooltipVisible'
FiredTimers == timers \ timers'
C33_HiddenOnlyByLaterRequest ==
  [][HiddenByStep => \E id \in FiredTimers : id > shownAt]_vars

\* C34: a configured pattern that is not a valid regular expression never makes the
\* filter raise, and it suppresses exactly the messages that contain it as a literal
\* substring: every capture is decided, a message containing an invalid pattern is
\* suppressed, and a suppressed message either contains an invalid pattern literally or
\* is matched by one of the valid ones.
LiteralIn(m, p) ==
  \E i \in 1..Len(m) : i + Len(p) - 1 <= Len(m) /\ SubSeq(m, i, i + Len(p) - 1) = p
PatternSuppresses(p, m) == IF p \in InvalidPatterns THEN LiteralIn(m, p) ELSE RegexTest(p, m)
C34_InvalidPatternIsLiteral ==
  \A k \in 1..Len(capLog) :
    LET m == capLog[k].err.message
    IN /\ k \notin abortedCaps
       /\ \A i \in 1..Len(ignoredPatterns) :
            (ignoredPatterns[i] \in InvalidPatterns /\ LiteralIn(m, ignoredPatterns[i]))
              => ~capLog[k].accepted
       /\ ~capLog[k].accepted
            => \E i \in 1..Len(ignoredPatterns) : PatternSuppresses(ignoredPatterns[i], m)

\* with the only pattern "(a": "(a" was suppressed, "(Ea" went to the consumer
C34_Witness ==
  /\ ignoredPatterns = <<PatInvalid>>
  /\ Len(capLog) = 2
  /\ capLog[1].err.message = MsgParen /\ ~capLog[1].accepted
  /\ capLog[2].err.message = MsgSplit /\ capLog[2].accepted
  /\ invoked = << <<2, "h1">> >>

\* C35: two accepted signals that have different messages and no raw location, each
\* captured once and resolved, are listed as two distinct records with count 1 each.
LocationLess(k) == capLog[k].err.loc = NoLoc
CapturedOnce(k) ==
  \A j \in 1..Len(capLog) : (Accepted(j) /\ capLog[j].err.message = capLog[k].err.message) => j = k
OwnRecord(k) == PosOf(capturedErrors, k) # 0 /\ capturedErrors[PosOf(capturedErrors, k)].count = 1
C35_LocationLessKeptApart ==
  \A a \in 1..Len(capLog), b \in 1..Len(capLog) :
    (/\ a # b /\ Accepted(a) /\ Accepted(b)
     /\ LocationLess(a) /\ LocationLess(b)
     /\ capLog[a].err.message # capLog[b].err.message
     /\ CapturedOnce(a) /\ CapturedOnce(b)
     /\ {a, b} \cap PendingCaps = {})
    => (OwnRecord(a) /\ OwnRecord(b))

\* what holds instead: a location-less capture gets a record of its own only when the
\* list holds no location-less record yet
C35_FirstLocationLessOnly ==
  \A i \in 1..Len(capturedErrors), j \in 1..Len(capturedErrors) :
    (capturedErrors[i].loc = NoLoc /\ capturedErrors[j].loc = NoLoc) => i = j

\* C36: after any sequence of captures and commands, every (element, highlightId) link
\* stored on a record of the error list is an association of that element's highlight
\* entry.
LinkInTable(l) ==
  /\ MapHas(highlights, l.element)
  /\ \E i \in 1..Len(MapGet(highlights, l.element).errors) :
       MapGet(highlights, l.element).errors[i].id = l.errorId
C36_RecordLinksInTable ==
  \A i \in 1..Len(capturedErrors) :
    \A j \in 1..Len(capturedErrors[i].associatedElements) :
      LinkInTable(capturedErrors[i].associatedElements[j])

\* C37: after any sequence of captures and commands, every association held in the
\* highlight table carries an id that is stored on some record of the error list.
StoredIds ==
  {capturedErrors[i].associatedElements[j].errorId :
     <<i, j>> \in {<<i, j>> \in (1..Len(capturedErrors)) \X (1..Cardinality(Elements)) :
                     j <= Len(capturedErrors[i].associatedElements)}}
TableIds == UNION {{highlights[i].errors[j].id : j \in 1..Len(highlights[i].errors)} : i \in 1..Len(highlights)}
C37_NoOrphanHighlights == TableIds \subseteq StoredIds

\* one of two highlighted records was cleared by id; the other one's association is the
\* only one left in the table
C37_Witness ==
  /\ cmdCount = 1 /\ tasks = {}
  /\ Cardinality({k \in 1..Len(capLog) : Accepted(k)}) = 2
  /\ Len(capturedErrors) = 1
  /\ capturedErrors[1].associatedElements # << >>
  /\ Len(highlights) = 1
  /\ TableIds # {} /\ TableIds = StoredIds

\* C38: after any sequence of settings operations (updateSettings, resetSettings,
\* addDomain, removeDomain), isEnabledForDomain(d) equals the value computed from the
\* current settings: false when globally disabled, otherwise membership of d in the
\* domain list for an allowlist and non-membership for a blocklist.
InDomainList(s, d) == \E i \in 1..Len(s.domainList) : DomainMatches(s.domainList[i], d)
GateOf(s, d) ==
  IF ~s.globalEnabled THEN FALSE
  ELSE IF s.domainListType = "allowlist" THEN InDomainList(s, d) ELSE ~InDomainList(s, d)
C38_CacheCoherent ==
  clearsPending = 0
    => \A d \in ManagerDomains : isEnabledForDomain(settings, domainEnabledCache, d) = GateOf(settings, d)

\* C39: a settings update that carries only some settings leaves every setting it does
\* not carry unchanged in the page: the capturer's ignore patterns, the highlight style
\* parameters and the map fetch timeout and retry count keep their previous values.
StyleSettingOf ==
  [color |-> "highlightColor", borderStyle |-> "borderStyle", borderWidth |-> "borderWidth",
   useBackground |-> "useBackground", backgroundOpacity |-> "backgroundOpacity"]
PatternsKept(msg) == "ignoredPatterns" \notin DOMAIN msg => ignoredPatterns' = ignoredPatterns
StyleKept(msg) ==
  \A k \in DOMAIN StyleSettingOf : StyleSettingOf[k] \notin DOMAIN msg => hlStyle'[k] = hlStyle[k]
FetchKept(msg) ==
  /\ "sourcemapTimeout" \notin DOMAIN msg => fetchCfg'.fetchTimeout = fetchCfg.fetchTimeout
  /\ "sourcemapRetries" \notin DOMAIN msg => fetchCfg'.fetchRetries = fetchCfg.fetchRetries
UncarriedKept ==
  \A msg \in SettingsMsgs :
    settingsUpdated(msg) => (PatternsKept(msg) /\ StyleKept(msg) /\ FetchKept(msg))
C39_PartialUpdateKeepsRest == [][UncarriedKept]_vars

\* the three parts on their own, and what does hold: the settings manager's copy keeps
\* what the message does not carry
C39_PatternsKept == [][\A msg \in SettingsMsgs : settingsUpdated(msg) => PatternsKept(msg)]_vars
C39_StyleKept == [][\A msg \in SettingsMsgs : settingsUpdated(msg) => StyleKept(msg)]_vars
C39_FetchKept == [][\A msg \in SettingsMsgs : settingsUpdated(msg) => FetchKept(msg)]_vars
C39_ManagerKeepsRest ==
  [][\A msg \in SettingsMsgs :
       settingsUpdated(msg) => \A k \in (DOMAIN settings) \ (DOMAIN msg) : settings'[k] = settings[k]]_vars

\* C40: for any generated-file URL at most one fetch sequence is under way or was made
\* per cache lifetime, even when several errors whose stacks name the same file are
\* captured while the first lookup for it is pending: no two suspended lookups are for
\* the same file, and no lookup starts for a file that another one is fetching.
PendingLookups == {t \in tasks : t.phase = "fetch"}
OneLookupPerFile ==
  \A t1 \in PendingLookups, t2 \in PendingLookups : FileOf(t1) = FileOf(t2) => t1 = t2
NoSecondStart ==
  \A t2 \in StartedLookups : ~\E t \in PendingLookups : FileOf(t) = FileOf(t2)
C40_SingleLookupPerFile == []OneLookupPerFile /\ [][NoSecondStart]_vars

\* what holds: a capture made after the file's lookup has completed starts none (C17)
C40_NoLookupAfterCompletion == [][NoFetchOnceCached]_vars
====
